---- MODULE Spec2Model ----
(***************************************************************************)
(* Verification model of the review session coordinator (ReviewManager),   *)
(* the review comment provider (ReviewDocumentCommentProvider) and the     *)
(* pull request tree node (PRNode) of vscode-pull-request-github.          *)
(*                                                                         *)
(* The extension runs on a single-threaded event loop: every handler runs  *)
(* without interruption up to its next `await`.  Each action below is one  *)
(* such uninterrupted segment; the position of every suspended call is     *)
(* part of the state.                                                      *)
(***************************************************************************)
EXTENDS Integers, Sequences, FiniteSets, TLC

\* ------------------------------------------------------------------ bounds

\* How many validateState promises (updateState requests that are not
\* suppressed by switchingToReviewMode) one behaviour may create.
MaxRequests == 3
\* Pull request numbers branch metadata may name; 0 stands for `undefined`.
PullRequests == {1}
\* Commit shas a branch or a pull request head may point at; 0 is `undefined`.
Commits == {1, 2}

\* ------------------------------------------------------- ReviewManager state

VARIABLES
    repo,                      \* this._repository.state.HEAD (a Branch or "none")
    prNumber,                  \* this._prNumber (0 = undefined)
    activePullRequest,         \* this._prManager.activePullRequest (0 = undefined)
    lastCommitSha,             \* this._lastCommitSha (0 = undefined)
    switchingToReviewMode,     \* this._switchingToReviewMode
    validateStatusInProgress,  \* this._validateStatusInProgress (0 = undefined, else a promise)
    promises,                  \* every promise updateState created, with the run it stands for
    switchPc,                  \* position of the one ReviewManager.switch() call, "idle" if none
    rmComments,                \* whether ReviewManager._comments is non-empty
    providerRegistered,        \* whether a comment provider of this session is registered and undisposed
    updateMessageShown,        \* this._updateMessageShown
    validateFound,             \* what the segment of validateState that ran last found missing
    pollTimers,                \* how many timers of pollForStatusChange are pending
    pollCalls,                 \* the calls of updateComments a poll tick started, each at its await
    pollOp,                    \* the segment of the poll loop that ran last
    contentChanges,            \* the `contentChanges` a call of getLocalChangeNodes is given
    changeNodes,               \* its local `nodes`
    changePc,                  \* where the call stands: "idle", "diffBetween" or "done"
    diffFailures,              \* the indices of the changes whose diff could not be computed or parsed
    commands,                  \* the command handlers of commands.ts suspended at an await
    cmdOp,                     \* the segment of a command handler that ran last
    projected,                 \* one run of a thread projection: its view, its input, its threads
    validated                  \* the last call of GitHubManager.validateScopes: arguments and result

\* The state of the poll loop.
pollVars == <<pollTimers, pollCalls, pollOp>>

\* The state of one call of getLocalChangeNodes.
loadVars == <<contentChanges, changeNodes, changePc, diffFailures>>

\* The state of the commands registered in commands.ts.
cmdVars == <<commands, cmdOp>>

rmVars == <<repo, prNumber, activePullRequest, lastCommitSha, switchingToReviewMode,
            validateStatusInProgress, promises, switchPc, rmComments, providerRegistered,
            updateMessageShown, validateFound, pollVars, loadVars, cmdVars, projected,
            validated>>

\* The state of the ReviewDocumentCommentProvider.
VARIABLES
    threads,                 \* every vscode.CommentThread object ever created, by identity
    fileChanges,             \* every GitFileChangeNode object ever created, by identity
    comments,                \* this._comments, the flat comment list
    localFileChanges,        \* this._localFileChanges (identities)
    obsoleteFileChanges,     \* this._obsoleteFileChanges (identities)
    workspaceFileChangeCommentThreads,   \* this._workspaceFileChangeCommentThreads
    obsoleteFileChangeCommentThreads,    \* this._obsoleteFileChangeCommentThreads
    prDocumentCommentThreads,            \* this._prDocumentCommentThreads
    reviewDocumentCommentThreads,        \* this._reviewDocumentCommentThreads
    initialized,             \* initializeWorkspaceCommentThreads has run its synchronous part
    inflight,                \* suspended calls, each with the locals it captured before its await
    updateCalls,             \* how many times update() has been called
    handlers,                \* comment handlers suspended at a server call, with their locals
    mutations,               \* how many comment handlers have been started
    lastOp,                  \* the operation whose segment ran last, with its arguments
    fired                    \* whether that segment fired onDidChangeComments, and with which list

provVars == <<threads, fileChanges, comments, localFileChanges, obsoleteFileChanges,
              workspaceFileChangeCommentThreads, obsoleteFileChangeCommentThreads,
              prDocumentCommentThreads, reviewDocumentCommentThreads, initialized,
              inflight, updateCalls, handlers, mutations, lastOp, fired>>

\* The state of the PRNode of a pull request that is not the active one.
VARIABLES
    nodeFileChanges,               \* this._fileChanges, <<>> before the first refresh
    nodeThreads,                   \* every thread object the node ever created, by identity
    nodeFileChangeCommentThreads,  \* this._fileChangeCommentThreads
    nodeCommentController,         \* whether this._commentController is set
    nodeCalls,                     \* the calls of getChildren suspended at an await
    nodeRefreshes,                 \* how many times getChildren has been called
    nodeOp,                        \* the segment of the node's code that ran last
    nodeHandlers                   \* the node's comment handlers suspended at a server call

nodeVars == <<nodeFileChanges, nodeThreads, nodeFileChangeCommentThreads,
              nodeCommentController, nodeCalls, nodeRefreshes, nodeOp, nodeHandlers>>

vars == <<rmVars, provVars, nodeVars>>


\* The branches HEAD may be, as the fields validateState reads of them.
\*   head     : whether state.HEAD is defined
\*   commit   : HEAD.commit
\*   upstream : whether HEAD.upstream (and so its remote) is set
\*   synced   : HEAD.ahead === 0 && HEAD.behind === 0
NoHead == [head |-> FALSE, commit |-> 0, upstream |-> FALSE, synced |-> TRUE]

Branches ==
    [head : {TRUE}, commit : Commits, upstream : BOOLEAN, synced : BOOLEAN]

RepoStates == {NoHead} \cup Branches

\* A promise returned by validateState(), or by `.then(async _ => await this.validateState())`.
\*   status  "chained"  : the then-callback has not been called yet (prev is unsettled)
\*           "running"  : its validateState execution is in flight, suspended at pc
\*           "resolved" / "rejected"
\*   branch, meta       : the locals `branch` and `matchingPullRequestMetadata.prNumber`
\* A settled promise keeps nothing but its outcome.
NewPromise(status, prev) ==
    [status |-> status, prev |-> prev, pc |-> "updateRepositories",
     branch |-> NoHead, meta |-> 0]

Running == {p \in DOMAIN promises : promises[p].status = "running"}

\* A promise settles and the reactions registered on it run in the same turn of the
\* event loop: a resolved promise starts the validateState of the promise chained on
\* it; a rejected one rejects the whole chain behind it without calling validateState.
RECURSIVE Settle(_, _, _)
Settle(ps, p, outcome) ==
    LET settled == [ps EXCEPT ![p] = NewPromise(outcome, 0)]
        next == {q \in DOMAIN ps : ps[q].status = "chained" /\ ps[q].prev = p}
    IN  IF next = {} THEN settled
        ELSE LET q == CHOOSE q \in next : TRUE
             IN  IF outcome = "resolved"
                 THEN [settled EXCEPT ![q] = NewPromise("running", 0)]
                 ELSE Settle(settled, q, "rejected")

\* ReviewManager.clear
ClearEffect(quitReviewMode) ==
    /\ updateMessageShown' = FALSE
    /\ providerRegistered' = FALSE
    /\ IF quitReviewMode
       THEN /\ prNumber' = 0
            /\ activePullRequest' = 0
            /\ rmComments' = FALSE
       ELSE UNCHANGED <<prNumber, activePullRequest, rmComments>>

\* An updateState that does not look at switchingToReviewMode.
UpdateStateEffectWhileSwitching ==
    /\ Len(promises) < MaxRequests
    /\ validateStatusInProgress' = Len(promises) + 1
    /\ promises' =
          IF validateStatusInProgress = 0
          THEN Append(promises, NewPromise("running", 0))
          ELSE LET prev == promises[validateStatusInProgress].status
               IN  Append(promises,
                          CASE prev = "resolved" -> NewPromise("running", 0)
                            [] prev = "rejected" -> NewPromise("rejected", 0)
                            [] OTHER -> NewPromise("chained", validateStatusInProgress))

\* ReviewManager.updateState
UpdateStateEffect ==
    IF switchingToReviewMode'
    THEN UNCHANGED <<validateStatusInProgress, promises>>
    ELSE /\ Len(promises) < MaxRequests
         /\ LET n == Len(promises) + 1
            IN  /\ validateStatusInProgress' = n
                /\ promises' =
                     IF validateStatusInProgress = 0
                     THEN Append(promises, NewPromise("running", 0))
                     ELSE LET prev == promises[validateStatusInProgress].status
                          IN  Append(promises,
                                     CASE prev = "resolved" -> NewPromise("running", 0)
                                       [] prev = "rejected" -> NewPromise("rejected", 0)
                                       [] OTHER -> NewPromise("chained",
                                                              validateStatusInProgress))

\* The repository state-change listener registered in registerListeners.
RepositoryStateChange ==
    /\ UNCHANGED <<provVars, nodeVars, projected, validated, pollVars, loadVars, cmdVars>>
    /\ validateFound' = "nothing"
    /\ \E r \in RepoStates :
          /\ r # repo
          /\ repo' = r
    /\ UNCHANGED switchingToReviewMode
    /\ UpdateStateEffect
    /\ UNCHANGED <<prNumber, activePullRequest, lastCommitSha, switchPc, rmComments,
                   providerRegistered, updateMessageShown>>

\* `set repository` and createPullRequest: an updateState() request with no other effect here.
RequestUpdateState ==
    /\ UNCHANGED <<provVars, nodeVars, projected, validated, pollVars, loadVars, cmdVars>>
    /\ validateFound' = "nothing"
    /\ UNCHANGED switchingToReviewMode
    /\ UpdateStateEffect
    /\ UNCHANGED <<repo, prNumber, activePullRequest, lastCommitSha, switchPc, rmComments,
                   providerRegistered, updateMessageShown>>

\* What is recorded of a segment of the poll loop: its name and whether it called
\* updateComments.
PollOp(name) == [name |-> name, invoked |-> FALSE]

\* What is recorded of a segment of a command handler: the command, whether it was
\* given a pull request, whether the segment showed an error message, whether it ended
\* in an exception, and the PullRequestManager operation it called.
CmdOp(name, hasArgument) ==
    [name |-> name, hasArgument |-> hasArgument, errorShown |-> FALSE, threw |-> FALSE,
     invoked |-> "none", fired |-> 0]

\* validateScopes has not been called.
NotValidated ==
    [called |-> FALSE, host |-> <<>>, scopes |-> [granted |-> {}, separator |-> ", "],
     result |-> FALSE]

\* No projection has been run on its own.
NotProjected ==
    [view |-> "none", isBase |-> FALSE, hunks |-> <<>>, contentDiff |-> {},
     input |-> <<>>, threads |-> <<>>]

\* getLocalChangeNodes has not been called, and no command has been run.
NoContentChanges ==
    /\ projected = NotProjected
    /\ validated = NotValidated
    /\ commands = {}
    /\ cmdOp = CmdOp("none", FALSE)
    /\ contentChanges = <<>>
    /\ changeNodes = <<>>
    /\ changePc = "idle"
    /\ diffFailures = {}

InitReviewManager ==
    /\ repo \in RepoStates
    /\ prNumber = 0
    /\ activePullRequest = 0
    /\ lastCommitSha = 0
    /\ switchingToReviewMode = FALSE
    /\ validateStatusInProgress = 1
    /\ promises = <<NewPromise("running", 0)>>
    /\ switchPc = "idle"
    /\ rmComments = FALSE
    /\ providerRegistered = FALSE
    /\ updateMessageShown = FALSE
    /\ validateFound = "nothing"
    /\ pollTimers = 1
    /\ pollCalls = <<>>
    /\ pollOp = PollOp("constructor")

\* ------------------------------------- comments, file changes, comment threads

\* The files of the repository the pull request may touch.
Files == {"a", "b"}

\* The review comments that may exist on the remote.  A comment's anchor is fixed by
\* its id: 1 and 2 share diff position 1 of file a, 3 sits on position 2 of file a,
\* 4 and 5 are outdated comments of file a (position null, written 0) made on commit
\* "old", 4 on its diff position 3 and 5 on its diff position 2.  Comments 2, 3 and 4
\* belong to review 2, the user's pending review; 1 and 5 belong to the submitted
\* review 1.  File b has no comments.
Ids == {1, 2, 3, 4, 5}

PendingReview == 2

Comment(i, body) ==
    [id |-> i,
     path |-> "a",
     position |-> CASE i \in {1, 2} -> 1 [] i = 3 -> 2 [] OTHER -> 0,
     originalPosition |-> CASE i \in {1, 2} -> 1 [] i \in {3, 5} -> 2 [] OTHER -> 3,
     originalCommitId |-> IF i \in {4, 5} THEN "old" ELSE "head",
     pullRequestReviewId |-> IF i \in {2, 3, 4} THEN PendingReview ELSE 1,
     body |-> body,
     reactions |-> <<>>]

\* The diff of every changed file is one hunk of three lines: position 1 is an added
\* line, position 2 a context line, position 3 a deleted line.
DiffLines ==
    <<[type |-> "Add",     oldLineNumber |-> -1, newLineNumber |-> 11, positionInHunk |-> 1],
      [type |-> "Context", oldLineNumber |-> 11, newLineNumber |-> 12, positionInHunk |-> 2],
      [type |-> "Delete",  oldLineNumber |-> 12, newLineNumber |-> -1, positionInHunk |-> 3]>>

\* What the remote returns for one fetch of the pull request: its comments, in server
\* order, and its files.  A file with a positioned comment is a file of the diff.
RECURSIVE SortAsc(_)
SortAsc(S) ==
    IF S = {} THEN <<>>
    ELSE LET m == CHOOSE x \in S : \A y \in S : x <= y
         IN  <<m>> \o SortAsc(S \ {m})

Snapshots ==
    {[ids |-> {},        files |-> {}],
     [ids |-> {1},       files |-> {"a"}],
     [ids |-> {1, 2, 3}, files |-> {"a", "b"}],
     [ids |-> {2, 3, 4}, files |-> {"a"}],
     [ids |-> {1, 4},    files |-> {"a", "b"}],
     [ids |-> {4},       files |-> {"b"}]}

FetchedComments(sn) ==
    LET order == SortAsc(sn.ids)
    IN  [k \in 1..Len(order) |-> Comment(order[k], 0)]



\* The four view maps, in the order deleteReview and onDidChangeDraftMode walk them.
ViewMaps ==
    <<workspaceFileChangeCommentThreads, obsoleteFileChangeCommentThreads,
      prDocumentCommentThreads, reviewDocumentCommentThreads>>

\* --------------------------------------------------------------- projection

\* convertToVSCodeComment
convertToVSCodeComment(c) ==
    [commentId |-> ToString(c.id),
     body |-> c.body,
     commentReactions |-> [k \in 1..Len(c.reactions) |->
                              [label |-> c.reactions[k].label,
                               hasReacted |-> c.reactions[k].viewerHasReacted]]]

\* The keys of groupBy's result in `for ... in` order: integer keys ascending, then
\* the key "null" (written 0).
SectionKeys(cs, key) ==
    LET ks == {cs[k][key] : k \in 1..Len(cs)}
    IN  SortAsc(ks \ {0}) \o (IF 0 \in ks THEN <<0>> ELSE <<>>)

\* groupBy, by the field `key` of the comments: one section per key, each keeping the
\* order of the input.
groupBy(cs, key) ==
    LET keys == SectionKeys(cs, key)
    IN  [k \in 1..Len(keys) |-> SelectSeq(cs, LAMBDA c : c[key] = keys[k])]

\* A thread descriptor that takes its threadId of the last comment of the section.
SectionThreadOfLast(section, resource) ==
    [threadId |-> ToString(section[Len(section)].id),
     resource |-> resource,
     comments |-> [k \in 1..Len(section) |-> convertToVSCodeComment(section[k])]]

\* The thread descriptor every projection builds of one section.
SectionThread(section, resource) ==
    [threadId |-> ToString(section[1].id),
     resource |-> resource,
     comments |-> [k \in 1..Len(section) |-> convertToVSCodeComment(section[k])]]

FileUri(fileName) == [scheme |-> "file", path |-> fileName, commit |-> "", base |-> FALSE]
ReviewUri(fileName, commit, base) ==
    [scheme |-> "review", path |-> fileName, commit |-> commit, base |-> base]
PRUri(fileName, base) == [scheme |-> "pr", path |-> fileName, commit |-> "", base |-> base]

\* workspaceLocalCommentsToCommentThreads
workspaceLocalCommentsToCommentThreads(fileComments) ==
    LET sections == groupBy(fileComments, "position")
    IN  [k \in 1..Len(sections) |-> SectionThread(sections[k], FileUri(sections[k][1].path))]

\* outdatedCommentsToCommentThreads
outdatedCommentsToCommentThreads(fileChange, fileComments) ==
    LET sections == groupBy(fileComments, "position")
    IN  [k \in 1..Len(sections) |->
            SectionThread(sections[k], ReviewUri(fileChange.fileName, fileChange.sha, FALSE))]

\* createVSCodeCommentThread, for a sequence of descriptors: the heap with one new
\* live thread object per descriptor, and the identities of the new objects.
NewThreads(heap, descriptors) ==
    heap \o [k \in 1..Len(descriptors) |->
                [threadId |-> descriptors[k].threadId,
                 resource |-> descriptors[k].resource,
                 comments |-> descriptors[k].comments,
                 disposed |-> 0]]

NewThreadRefs(heap, descriptors) ==
    [k \in 1..Len(descriptors) |-> Len(heap) + k]

\* thread.dispose(): the calls are counted, two or more count as two.
Dispose(heap, t) ==
    [heap EXCEPT ![t].disposed = IF @ < 2 THEN @ + 1 ELSE @]

\* A forEach over threads that disposes none of them.
DisposeNone(heap, ts) == heap

RECURSIVE DisposeAll(_, _)
DisposeAll(heap, ts) ==
    IF ts = <<>> THEN heap ELSE DisposeAll(Dispose(heap, Head(ts)), Tail(ts))

\* ------------------------------------------------ file changes of one fetch

\* getLocalChangeNodes and the obsolete part of getPullRequestData: the file change
\* objects one fetch builds, local ones first.
LocalFileChangesOf(sn) ==
    LET names == SortAsc({IF f = "a" THEN 1 ELSE 2 : f \in sn.files})
        all == FetchedComments(sn)
    IN  [k \in 1..Len(names) |->
            LET f == IF names[k] = 1 THEN "a" ELSE "b"
            IN  [fileName |-> f, sha |-> "head", obsolete |-> FALSE,
                 comments |-> SelectSeq(all, LAMBDA c : c.position # 0 /\ c.path = f)]]

ObsoleteFileChangesOf(sn) ==
    LET all == FetchedComments(sn)
        outdated == SelectSeq(all, LAMBDA c : c.position = 0)
        names == SortAsc({IF outdated[k].path = "a" THEN 1 ELSE 2 : k \in 1..Len(outdated)})
    IN  [k \in 1..Len(names) |->
            LET f == IF names[k] = 1 THEN "a" ELSE "b"
            IN  [fileName |-> f, sha |-> "old", obsolete |-> TRUE,
                 comments |-> SelectSeq(outdated, LAMBDA c : c.path = f)]]

\* What lastOp records of a segment: the operation, the file or document it worked
\* on, the file change and the thread objects it held, the ids a server call returned
\* to it, whether it ended in an exception, whether it belongs to a call of update() no
\* other operation has run alongside, whether that call repeats the call before it, and
\* whether the segment is the one a comment mutation completes with, and whether it is
\* the one a rejected server call ends the operation with.
Op(name) ==
    [name |-> name, fileName |-> "", matchedFile |-> 0, existing |-> <<>>, ids |-> {},
     threw |-> FALSE, alone |-> FALSE, again |-> FALSE, mutated |-> FALSE,
     rejected |-> FALSE]

NotFired == [fired |-> FALSE, comments |-> <<>>]
Fired(cs) == [fired |-> TRUE, comments |-> cs]

\* The PRNode as its constructor leaves it.
InitNode ==
    /\ nodeFileChanges = <<>>
    /\ nodeThreads = <<>>
    /\ nodeFileChangeCommentThreads = <<>>
    /\ nodeCommentController = FALSE
    /\ nodeCalls = {}
    /\ nodeRefreshes = 0
    /\ nodeOp = [name |-> "constructor", fileChanges |-> <<>>, threw |-> FALSE]
    /\ nodeHandlers = {}

Refs(from, n) == [k \in 1..n |-> from + k]

\* The provider as its constructor leaves it, for the pull request data `sn`.
InitProvider(sn) ==
    LET local == LocalFileChangesOf(sn)
        obsolete == ObsoleteFileChangesOf(sn)
    IN  /\ threads = <<>>
        /\ fileChanges = local \o obsolete
        /\ comments = FetchedComments(sn)
        /\ localFileChanges = Refs(0, Len(local))
        /\ obsoleteFileChanges = Refs(Len(local), Len(obsolete))
        /\ workspaceFileChangeCommentThreads = <<>>
        /\ obsoleteFileChangeCommentThreads = <<>>
        /\ prDocumentCommentThreads = <<>>
        /\ reviewDocumentCommentThreads = <<>>
        /\ initialized = FALSE
        /\ inflight = {}
        /\ updateCalls = 0
        /\ handlers = {}
        /\ mutations = 0
        /\ lastOp = Op("constructor")
        /\ fired = NotFired
        /\ InitNode

\* A map entry set or deleted: maps are functions whose domain is the set of keys.
Put(map, key, value) ==
    [k \in DOMAIN map \cup {key} |-> IF k = key THEN value ELSE map[k]]

Remove(map, key) ==
    [k \in DOMAIN map \ {key} |-> map[k]]

\* ------------------------------------------------ ReviewManager.validateState

RMFrame == UNCHANGED <<repo, switchingToReviewMode, switchPc>>

\* validateState, resumed after `await this._prManager.updateRepositories()`.
ValidateAfterUpdateRepositories(p) ==
    /\ UNCHANGED <<provVars, nodeVars, projected, validated, pollVars, loadVars, cmdVars>>
    /\ p \in Running
    /\ promises[p].pc = "updateRepositories"
    /\ RMFrame
    /\ UNCHANGED <<lastCommitSha, validateStatusInProgress>>
    /\ \/ /\ promises' = Settle(promises, p, "rejected")
          /\ validateFound' = "nothing"
          /\ UNCHANGED <<prNumber, activePullRequest, rmComments, providerRegistered,
                         updateMessageShown>>
       \/ /\ ~repo.head
          /\ validateFound' = "no HEAD"
          /\ ClearEffect(TRUE)
          /\ promises' = Settle(promises, p, "resolved")
       \/ /\ repo.head
          /\ validateFound' = "nothing"
          /\ promises' = [promises EXCEPT ![p].branch = repo, ![p].pc = "getMetadata"]
          /\ UNCHANGED <<prNumber, activePullRequest, rmComments, providerRegistered,
                         updateMessageShown>>

\* A validateState that never takes the early return.
NeverStillInReview(meta, hasPushedChanges) == FALSE

\* The condition of the early return of validateState: the branch is the one of the
\* pull request under review and nothing has been pushed to it.
StillInReview(meta, hasPushedChanges) ==
    prNumber = meta /\ ~hasPushedChanges

\* validateState, resumed after `await getMatchingPullRequestMetadataForBranch()`.
\* The three Logger lines read this._repository.state.HEAD.name, which throws once
\* HEAD has become undefined during the await: the two that report missing metadata
\* and a missing remote stand before the call of clear(true).
ValidateAfterGetMetadata(p) ==
    /\ UNCHANGED <<provVars, nodeVars, projected, validated, pollVars, loadVars, cmdVars>>
    /\ p \in Running
    /\ promises[p].pc = "getMetadata"
    /\ RMFrame
    /\ UNCHANGED validateStatusInProgress
    /\ \E meta \in {0} \cup PullRequests :
         LET branch == promises[p].branch
             hasPushedChanges == branch.commit # lastCommitSha /\ branch.synced
         IN  IF meta = 0
             THEN /\ validateFound' = "no metadata"
                  /\ UNCHANGED lastCommitSha
                  /\ IF repo.head
                     THEN /\ ClearEffect(TRUE)
                          /\ promises' = Settle(promises, p, "resolved")
                     ELSE /\ promises' = Settle(promises, p, "rejected")
                          /\ UNCHANGED <<prNumber, activePullRequest, rmComments,
                                         providerRegistered, updateMessageShown>>
             ELSE IF StillInReview(meta, hasPushedChanges)
             THEN /\ validateFound' = "nothing"
                  /\ promises' = Settle(promises, p, "resolved")
                  /\ UNCHANGED <<prNumber, activePullRequest, lastCommitSha, rmComments,
                                 providerRegistered, updateMessageShown>>
             ELSE IF ~repo.head
             THEN /\ validateFound' = IF branch.upstream THEN "nothing" ELSE "no remote"
                  /\ promises' = Settle(promises, p, "rejected")
                  /\ UNCHANGED <<prNumber, activePullRequest, lastCommitSha, rmComments,
                                 providerRegistered, updateMessageShown>>
             ELSE IF ~branch.upstream
             THEN /\ validateFound' = "no remote"
                  /\ ClearEffect(TRUE)
                  /\ promises' = Settle(promises, p, "resolved")
                  /\ UNCHANGED lastCommitSha
             ELSE /\ validateFound' = "nothing"
                  /\ providerRegistered' = FALSE          \* this.clear(false)
                  /\ updateMessageShown' = FALSE
                  /\ prNumber' = meta
                  /\ lastCommitSha' = 0
                  /\ promises' = [promises EXCEPT ![p].meta = meta,
                                                  ![p].pc = "resolvePullRequest"]
                  /\ UNCHANGED <<activePullRequest, rmComments>>

\* validateState, resumed after `await this._prManager.resolvePullRequest(...)`.
ValidateAfterResolvePullRequest(p) ==
    /\ UNCHANGED <<provVars, nodeVars, projected, validated, pollVars, loadVars, cmdVars>>
    /\ validateFound' = "nothing"
    /\ p \in Running
    /\ promises[p].pc = "resolvePullRequest"
    /\ RMFrame
    /\ UNCHANGED <<validateStatusInProgress, rmComments, providerRegistered, updateMessageShown>>
    /\ \/ /\ promises' = Settle(promises, p, "rejected")
          /\ UNCHANGED <<prNumber, activePullRequest, lastCommitSha>>
       \/ /\ prNumber' = 0                                 \* `!pr`
          /\ promises' = Settle(promises, p, "resolved")
          /\ UNCHANGED <<activePullRequest, lastCommitSha>>
       \/ \E sha \in Commits :
            /\ activePullRequest' = promises[p].meta
            /\ lastCommitSha' = sha
            /\ promises' = [promises EXCEPT ![p].pc = "getPullRequestData"]
            /\ UNCHANGED prNumber

\* validateState, resumed after `await this.getPullRequestData(pr)`, which catches
\* every error of its own and has replaced this._comments by what it fetched.
ValidateAfterGetPullRequestData(p) ==
    /\ UNCHANGED <<provVars, nodeVars, projected, validated, pollVars, loadVars, cmdVars>>
    /\ validateFound' = "nothing"
    /\ p \in Running
    /\ promises[p].pc = "getPullRequestData"
    /\ RMFrame
    /\ UNCHANGED <<validateStatusInProgress, prNumber, activePullRequest, lastCommitSha,
                   providerRegistered, updateMessageShown>>
    /\ rmComments' = TRUE
    /\ promises' = [promises EXCEPT ![p].pc = "showPullRequestFileChanges"]

\* validateState, resumed after `await showPullRequestFileChanges(...)`: it calls
\* registerCommentProvider, whose constructor reads activePullRequest!.prNumber.
ValidateAfterShowPullRequestFileChanges(p) ==
    /\ UNCHANGED <<provVars, nodeVars, projected, validated, pollVars, loadVars, cmdVars>>
    /\ validateFound' = "nothing"
    /\ p \in Running
    /\ promises[p].pc = "showPullRequestFileChanges"
    /\ RMFrame
    /\ UNCHANGED <<validateStatusInProgress, prNumber, activePullRequest, lastCommitSha,
                   rmComments, providerRegistered, updateMessageShown>>
    /\ promises' = IF activePullRequest = 0
                   THEN Settle(promises, p, "rejected")
                   ELSE [promises EXCEPT ![p].pc = "registerCommentProvider"]

\* validateState, resumed after `await this.registerCommentProvider()`: the provider
\* joins _localToDispose, the status bar is shown and the in-progress marker cleared.
ValidateAfterRegisterCommentProvider(p) ==
    /\ UNCHANGED <<provVars, nodeVars, projected, validated, pollVars, loadVars, cmdVars>>
    /\ validateFound' = "nothing"
    /\ p \in Running
    /\ promises[p].pc = "registerCommentProvider"
    /\ RMFrame
    /\ UNCHANGED <<prNumber, activePullRequest, lastCommitSha, rmComments>>
    /\ providerRegistered' = TRUE
    /\ UNCHANGED updateMessageShown
    /\ validateStatusInProgress' = 0
    /\ promises' = Settle(promises, p, "resolved")

\* ------------------------------------------------------ ReviewManager.switch

\* switch(pr) up to its first await, of checkoutExistingPullRequestBranch: the setter
\* stores true and requests nothing.
SwitchStart ==
    /\ UNCHANGED <<provVars, nodeVars, projected, validated, pollVars, loadVars, commands>>
    /\ validateFound' = "nothing"
    /\ switchPc = "idle"
    /\ switchPc' = "checkout"
    /\ cmdOp' = [CmdOp("switch", TRUE) EXCEPT !.invoked = "checkoutExistingPullRequestBranch"]
    /\ switchingToReviewMode' = TRUE
    /\ UNCHANGED <<repo, prNumber, activePullRequest, lastCommitSha,
                   validateStatusInProgress, promises, rmComments, providerRegistered, updateMessageShown>>

\* There was no local branch of the pull request: switch awaits fetchAndCheckout.
SwitchNoLocalCheckout ==
    /\ UNCHANGED <<provVars, nodeVars, projected, validated, pollVars, loadVars, commands>>
    /\ validateFound' = "nothing"
    /\ switchPc = "checkout"
    /\ switchPc' = "fetchAndCheckout"
    /\ cmdOp' = [cmdOp EXCEPT !.invoked = "fetchAndCheckout"]
    /\ UNCHANGED <<repo, switchingToReviewMode, prNumber, activePullRequest, lastCommitSha,
                   validateStatusInProgress, promises, rmComments, providerRegistered, updateMessageShown>>

\* Where switch goes on after a checkout that failed, falling out of the catch block.
AfterCheckoutFailedFallsThrough == "fullfillPullRequestMissingInfo"

\* Where switch goes on after a checkout that failed: both branches of the catch
\* block return.
AfterCheckoutFailed == "idle"

\* The checkout failed, whatever the git error code: the catch block resets the flag
\* (the setter calls updateState), shows one of its two error messages and returns.
SwitchCheckoutFailed ==
    /\ UNCHANGED <<provVars, nodeVars, projected, validated, pollVars, loadVars, commands>>
    /\ validateFound' = "nothing"
    /\ switchPc \in {"checkout", "fetchAndCheckout"}
    /\ switchPc' = AfterCheckoutFailed
    /\ \E gitErrorCode \in {"LocalChangesOverwritten", "DirtyWorkTree", "other", "none"} :
          cmdOp' = [cmdOp EXCEPT !.errorShown = TRUE, !.threw = TRUE,
                                 !.invoked = IF AfterCheckoutFailed = "idle" THEN @
                                             ELSE AfterCheckoutFailed]
    /\ switchingToReviewMode' = FALSE
    /\ UpdateStateEffect
    /\ UNCHANGED <<repo, prNumber, activePullRequest, lastCommitSha, rmComments,
                   providerRegistered, updateMessageShown>>

\* The checkout succeeded; switch awaits fullfillPullRequestMissingInfo.
SwitchCheckedOut ==
    /\ UNCHANGED <<provVars, nodeVars, projected, validated, pollVars, loadVars, commands>>
    /\ validateFound' = "nothing"
    /\ switchPc \in {"checkout", "fetchAndCheckout"}
    /\ switchPc' = "fullfillPullRequestMissingInfo"
    /\ cmdOp' = [cmdOp EXCEPT !.invoked = "fullfillPullRequestMissingInfo"]
    /\ UNCHANGED <<repo, switchingToReviewMode, prNumber, activePullRequest, lastCommitSha,
                   validateStatusInProgress, promises, rmComments, providerRegistered, updateMessageShown>>

\* The finally block of switch, reached on success and on failure alike.
SwitchFinally ==
    /\ UNCHANGED <<provVars, nodeVars, projected, validated, pollVars, loadVars, cmdVars>>
    /\ validateFound' = "nothing"
    /\ switchPc = "fullfillPullRequestMissingInfo"
    /\ switchPc' = "idle"
    /\ switchingToReviewMode' = FALSE
    /\ UpdateStateEffect
    /\ UNCHANGED <<repo, prNumber, activePullRequest, lastCommitSha, rmComments,
                   providerRegistered, updateMessageShown>>

NextRM ==
    \/ RepositoryStateChange
    \/ RequestUpdateState
    \/ SwitchStart
    \/ SwitchNoLocalCheckout
    \/ SwitchCheckoutFailed
    \/ SwitchCheckedOut
    \/ SwitchFinally
    \/ \E p \in DOMAIN promises : ValidateAfterUpdateRepositories(p)
    \/ \E p \in DOMAIN promises : ValidateAfterGetMetadata(p)
    \/ \E p \in DOMAIN promises : ValidateAfterResolvePullRequest(p)
    \/ \E p \in DOMAIN promises : ValidateAfterGetPullRequestData(p)
    \/ \E p \in DOMAIN promises : ValidateAfterShowPullRequestFileChanges(p)
    \/ \E p \in DOMAIN promises : ValidateAfterRegisterCommentProvider(p)

\* The review manager on its own: no comment provider has been constructed yet.
InitRM ==
    /\ InitReviewManager
    /\ NoContentChanges
    /\ InitProvider([ids |-> {}, files |-> {}])

SpecRM == InitRM /\ [][NextRM]_vars

\* C1: at most one execution of validateState is in progress at any time, whatever
\* the interleaving of updateState() requests.
C1_ValidateStateSerialized ==
    Cardinality(Running) <= 1

\* ------------------------------------- ReviewDocumentCommentProvider: views

\* A call suspended at an await, with the locals it holds across the await.
Suspended(kind, fileName, matchedFile, existing, hasExisting, uri) ==
    [kind |-> kind, fileName |-> fileName, matchedFile |-> matchedFile,
     existing |-> existing, hasExisting |-> hasExisting, uri |-> uri]

\* The bound on the thread objects created in one behaviour.
MaxThreads == 6

\* The bound on the calls suspended at the same time.
MaxSuspended == 2

\* The segments that leave the flat list, the file changes and the review manager alone.
ViewFrame ==
    UNCHANGED <<rmVars, nodeVars, fileChanges, comments, updateCalls, handlers, mutations>>

\* initializeWorkspaceCommentThreads, the loop over the obsolete file changes.
RECURSIVE InitializeObsolete(_, _, _)
InitializeObsolete(heap, map, fcs) ==
    IF fcs = <<>> THEN [threads |-> heap, map |-> map]
    ELSE LET fileChange == fileChanges[Head(fcs)]
             descs == outdatedCommentsToCommentThreads(fileChange, fileChange.comments)
         IN  InitializeObsolete(NewThreads(heap, descs),
                                Put(map, fileChange.fileName, NewThreadRefs(heap, descs)),
                                Tail(fcs))

\* initializeWorkspaceCommentThreads after its await of inDraftMode: every callback of
\* the forEach over the local file changes runs up to its await of diffWith, then the
\* obsolete file changes get their threads.
initializeWorkspaceCommentThreads ==
    /\ ~initialized
    /\ initialized' = TRUE
    /\ inflight' = inflight \cup
            {Suspended("initialize", fileChanges[localFileChanges[k]].fileName,
                       localFileChanges[k], <<>>, FALSE, FileUri("")) :
                k \in 1..Len(localFileChanges)}
    /\ Cardinality(inflight') <= MaxSuspended
    /\ LET r == InitializeObsolete(threads, obsoleteFileChangeCommentThreads,
                                   obsoleteFileChanges)
       IN  /\ Len(r.threads) <= MaxThreads
           /\ threads' = r.threads
           /\ obsoleteFileChangeCommentThreads' = r.map
    /\ lastOp' = Op("initializeWorkspaceCommentThreads")
    /\ fired' = NotFired
    /\ UNCHANGED <<localFileChanges, obsoleteFileChanges,
                   workspaceFileChangeCommentThreads, prDocumentCommentThreads,
                   reviewDocumentCommentThreads>>
    /\ ViewFrame

\* One callback of that forEach after its await of diffWith.
initializeWorkspaceFile(call) ==
    /\ call.kind = "initialize"
    /\ LET matchedFile == fileChanges[call.matchedFile]
           descs == workspaceLocalCommentsToCommentThreads(matchedFile.comments)
       IN  /\ Len(threads) + Len(descs) <= MaxThreads
           /\ threads' = NewThreads(threads, descs)
           /\ workspaceFileChangeCommentThreads' =
                  Put(workspaceFileChangeCommentThreads, matchedFile.fileName,
                      NewThreadRefs(threads, descs))
    /\ inflight' = inflight \ {call}
    /\ lastOp' = [Op("initializeWorkspaceFile") EXCEPT !.fileName = call.fileName]
    /\ fired' = NotFired
    /\ UNCHANGED <<localFileChanges, obsoleteFileChanges, initialized,
                   obsoleteFileChangeCommentThreads, prDocumentCommentThreads,
                   reviewDocumentCommentThreads>>
    /\ ViewFrame

\* getAbsolutePosition: the line, on the requested side, of the diff line at the
\* comment's position; -1 when the diff has no such line.
getAbsolutePosition(comment, isBase) ==
    LET found == {k \in 1..Len(DiffLines) : DiffLines[k].positionInHunk = comment.position}
    IN  IF found = {} THEN -1
        ELSE LET line == DiffLines[CHOOSE k \in found : TRUE]
             IN  IF isBase THEN line.oldLineNumber ELSE line.newLineNumber

\* provideDocumentComments: one thread per position whose line exists on the side shown.
provideDocumentComments(uri, isBase, matchingComments) ==
    LET sections == groupBy(matchingComments, "position")
        shown == SelectSeq(sections, LAMBDA sec : getAbsolutePosition(sec[1], isBase) >= 0)
    IN  [k \in 1..Len(shown) |-> SectionThread(shown[k], uri)]

\* The documents an editor may show: either side of file a from the pull request tree
\* (scheme pr), and file a from the review at the head commit and at the outdated commit.
PRDocuments == {PRUri("a", FALSE), PRUri("a", TRUE)}
ReviewDocuments == {ReviewUri("a", "head", FALSE), ReviewUri("a", "old", FALSE)}

\* uri.toString() and, for the strings of the review documents, fromReviewUri.
UriString(uri) ==
    uri.scheme \o ":" \o uri.path \o "?commit=" \o uri.commit
        \o (IF uri.base THEN "&base=true" ELSE "&base=false")

fromReviewUri(reviewUriString) ==
    CHOOSE uri \in ReviewDocuments : UriString(uri) = reviewUriString

\* initializeCommentThreadsForEditor for a document of scheme pr, up to its await.
initializeCommentThreadsForPRDocument(uri) ==
    /\ initialized
    /\ uri.path \notin DOMAIN prDocumentCommentThreads
    /\ LET matchedFileChanges ==
               SelectSeq(localFileChanges, LAMBDA fc : fileChanges[fc].fileName = uri.path)
           call == Suspended("pr", uri.path, matchedFileChanges[1], <<>>, FALSE, uri)
       IN  /\ matchedFileChanges # <<>>
           /\ call \notin inflight
           /\ inflight' = inflight \cup {call}
           /\ Cardinality(inflight') <= MaxSuspended
    /\ lastOp' = [Op("initializeCommentThreadsForEditor") EXCEPT !.fileName = uri.path]
    /\ fired' = NotFired
    /\ UNCHANGED <<threads, localFileChanges, obsoleteFileChanges, initialized,
                   workspaceFileChangeCommentThreads, obsoleteFileChangeCommentThreads,
                   prDocumentCommentThreads, reviewDocumentCommentThreads>>
    /\ ViewFrame

\* ... and after its await of inDraftMode.
providePRDocumentThreads(call) ==
    /\ call.kind = "pr"
    /\ LET matchedFile == fileChanges[call.matchedFile]
           descs == provideDocumentComments(call.uri, call.uri.base,
                                            matchedFile.comments)
       IN  /\ Len(threads) + Len(descs) <= MaxThreads
           /\ threads' = NewThreads(threads, descs)
           /\ prDocumentCommentThreads' =
                  Put(prDocumentCommentThreads, call.fileName,
                      NewThreadRefs(threads, descs))
    /\ inflight' = inflight \ {call}
    /\ lastOp' = [Op("providePRDocumentThreads") EXCEPT !.fileName = call.fileName]
    /\ fired' = NotFired
    /\ UNCHANGED <<localFileChanges, obsoleteFileChanges, initialized,
                   workspaceFileChangeCommentThreads, obsoleteFileChangeCommentThreads,
                   reviewDocumentCommentThreads>>
    /\ ViewFrame

\* findMatchedFileChangeForReviewDiffView: the first file change of the document's file
\* made at the document's commit; 0 when there is none.  A local file change answers to
\* the head commit (its sha and its filePath) and to the merge base (its parentFilePath),
\* an obsolete one to the commit of its comments.
findMatchedFileChangeForReviewDiffView(fcs, uri) ==
    LET matchedFiles ==
            SelectSeq(fcs, LAMBDA fc :
                /\ fileChanges[fc].fileName = uri.path
                /\ \/ ~fileChanges[fc].obsolete /\ fileChanges[fc].sha = uri.commit
                   \/ ~fileChanges[fc].obsolete /\ uri.commit = "base"
                   \/ fileChanges[fc].obsolete /\ fileChanges[fc].sha = uri.commit)
    IN  IF matchedFiles # <<>> THEN matchedFiles[1] ELSE 0

\* getLastDiffLine of an outdated comment's own hunk: the outdated comment of this model
\* was made on an added line.
getLastDiffLine(comment) ==
    [type |-> "Add", oldLineNumber |-> -1, newLineNumber |-> 13, positionInHunk |-> 3]

\* provideCommentInfoForReviewUri: the threads of a review document, or undefined.
provideCommentInfoForReviewUri(uri) ==
    LET matchedFile == findMatchedFileChangeForReviewDiffView(localFileChanges, uri)
        matchedObsoleteFile == findMatchedFileChangeForReviewDiffView(obsoleteFileChanges, uri)
        fallback == SelectSeq(comments, LAMBDA c : /\ c.path = uri.path
                                                   /\ c.originalCommitId \o "^" = uri.commit)
        obsoleteComments == IF matchedObsoleteFile = 0 THEN fallback
                            ELSE fileChanges[matchedObsoleteFile].comments
        sections == groupBy(obsoleteComments, "originalPosition")
        lineNumber(sec) == LET diffLine == getLastDiffLine(sec[1])
                           IN  IF uri.base THEN diffLine.oldLineNumber
                               ELSE IF diffLine.oldLineNumber > 0 THEN -1
                               ELSE diffLine.newLineNumber
        shown == SelectSeq(sections, LAMBDA sec : lineNumber(sec) >= 0)
    IN  IF matchedFile # 0
        THEN [defined |-> TRUE,
              threads |-> workspaceLocalCommentsToCommentThreads(
                  SelectSeq(fileChanges[matchedFile].comments,
                            LAMBDA c : getAbsolutePosition(c, uri.base) > 0))]
        ELSE IF shown = <<>> THEN [defined |-> FALSE, threads |-> <<>>]
        ELSE [defined |-> TRUE,
              threads |-> <<SectionThread(shown[1], FileUri(shown[1][1].path))>>]

\* initializeCommentThreadsForEditor for a document of scheme review, up to its await.
initializeCommentThreadsForReviewDocument(uri) ==
    /\ initialized
    /\ UriString(uri) \notin DOMAIN reviewDocumentCommentThreads
    /\ Suspended("review", uri.path, 0, <<>>, FALSE, uri) \notin inflight
    /\ inflight' = inflight \cup {Suspended("review", uri.path, 0, <<>>, FALSE, uri)}
    /\ Cardinality(inflight') <= MaxSuspended
    /\ lastOp' = [Op("initializeCommentThreadsForEditor") EXCEPT !.fileName = uri.path]
    /\ fired' = NotFired
    /\ UNCHANGED <<threads, localFileChanges, obsoleteFileChanges, initialized,
                   workspaceFileChangeCommentThreads, obsoleteFileChangeCommentThreads,
                   prDocumentCommentThreads, reviewDocumentCommentThreads>>
    /\ ViewFrame

\* ... and after its await of inDraftMode.
provideReviewDocumentThreads(call) ==
    /\ call.kind = "review"
    /\ LET reviewCommentThreads == provideCommentInfoForReviewUri(call.uri)
       IN  IF reviewCommentThreads.defined
           THEN /\ Len(threads) + Len(reviewCommentThreads.threads) <= MaxThreads
                /\ threads' = NewThreads(threads, reviewCommentThreads.threads)
                /\ reviewDocumentCommentThreads' =
                       Put(reviewDocumentCommentThreads, UriString(call.uri),
                           NewThreadRefs(threads, reviewCommentThreads.threads))
           ELSE UNCHANGED <<threads, reviewDocumentCommentThreads>>
    /\ inflight' = inflight \ {call}
    /\ lastOp' = [Op("provideReviewDocumentThreads") EXCEPT !.fileName = call.fileName]
    /\ fired' = NotFired
    /\ UNCHANGED <<localFileChanges, obsoleteFileChanges, initialized,
                   workspaceFileChangeCommentThreads, obsoleteFileChangeCommentThreads,
                   prDocumentCommentThreads>>
    /\ ViewFrame

\* ------------------------------------- ReviewDocumentCommentProvider.deleteReview

\* A deleteReview that filters the comments of a thread and never disposes the thread.
FilterThreadKeepingEmpty(heap, t, deleted) ==
    [heap EXCEPT ![t].comments =
        SelectSeq(@, LAMBDA c : ~\E d \in deleted : ToString(d) = c.commentId)]

\* deleteReview, one thread: its comments filtered, the thread disposed when none is left.
FilterThread(heap, t, deleted) ==
    LET kept == SelectSeq(heap[t].comments,
                          LAMBDA c : ~\E d \in deleted : ToString(d) = c.commentId)
        filtered == [heap EXCEPT ![t].comments = kept]
    IN  IF kept = <<>> THEN Dispose(filtered, t) ELSE filtered

\* deleteReview, the threads of one map entry in turn: the heap afterwards.
RECURSIVE FilterThreads(_, _, _)
FilterThreads(heap, ts, deleted) ==
    IF ts = <<>> THEN heap
    ELSE FilterThreads(FilterThread(heap, Head(ts), deleted), Tail(ts), deleted)

\* The keys of a map in the order the loops of this model visit them.  What a loop of
\* the provider does for one key does not depend on the keys it visited before.
FileKeys(map) == SelectSeq(<<"a", "b">>, LAMBDA f : f \in DOMAIN map)

ReviewKeys(map) ==
    SelectSeq(<<UriString(ReviewUri("a", "head", FALSE)),
                UriString(ReviewUri("a", "old", FALSE))>>,
              LAMBDA reviewUriString : reviewUriString \in DOMAIN map)

\* Every thread of the entries of a map, key by key.
RECURSIVE ThreadsOf(_, _)
ThreadsOf(map, keys) ==
    IF keys = <<>> THEN <<>> ELSE map[Head(keys)] \o ThreadsOf(map, Tail(keys))

\* deleteReview, the entries of one map once its threads are filtered: an entry keeps
\* its threads that still have comments and is deleted when none has.
FilterMap(heap, map) ==
    LET kept(key) == SelectSeq(map[key], LAMBDA t : heap[t].comments # <<>>)
    IN  [key \in {k \in DOMAIN map : kept(k) # <<>>} |-> kept(key)]

\* The comments of the user's pending review, which deleting the review deletes.
PendingIds == {i \in Ids : Comment(i, 0).pullRequestReviewId = PendingReview}

\* The bound on the comment handlers started in one behaviour.
MaxMutations == 2

\* deleteReview up to its await of PullRequestManager.deleteReview.
deleteReview ==
    /\ initialized
    /\ mutations < MaxMutations
    /\ mutations' = mutations + 1
    /\ handlers' = handlers \cup {[kind |-> "deleteReview", thread |-> 0, commentId |-> "",
                                   matchedFile |-> 0, rawComment |-> Comment(0, 0)]}
    /\ lastOp' = Op("deleteReview")
    /\ fired' = NotFired
    /\ UNCHANGED <<threads, localFileChanges, obsoleteFileChanges, initialized, inflight,
                   workspaceFileChangeCommentThreads, obsoleteFileChangeCommentThreads,
                   prDocumentCommentThreads, reviewDocumentCommentThreads>>
    /\ UNCHANGED <<rmVars, nodeVars, fileChanges, comments, updateCalls>>

\* deleteReview after PullRequestManager.deleteReview has returned the deleted comments.
deleteReviewDeleted(h) ==
    /\ h.kind = "deleteReview"
    /\ handlers' = handlers \ {h}
    /\ \E deletedReviewComments \in SUBSET PendingIds :
          LET visited == ThreadsOf(workspaceFileChangeCommentThreads,
                                   FileKeys(workspaceFileChangeCommentThreads))
                         \o ThreadsOf(obsoleteFileChangeCommentThreads,
                                      FileKeys(obsoleteFileChangeCommentThreads))
                         \o ThreadsOf(prDocumentCommentThreads,
                                      FileKeys(prDocumentCommentThreads))
                         \o ThreadsOf(reviewDocumentCommentThreads,
                                      ReviewKeys(reviewDocumentCommentThreads))
              heap == FilterThreads(threads, visited, deletedReviewComments)
          IN  /\ threads' = heap
              /\ workspaceFileChangeCommentThreads' =
                     FilterMap(heap, workspaceFileChangeCommentThreads)
              /\ obsoleteFileChangeCommentThreads' =
                     FilterMap(heap, obsoleteFileChangeCommentThreads)
              /\ prDocumentCommentThreads' = FilterMap(heap, prDocumentCommentThreads)
              /\ reviewDocumentCommentThreads' =
                     FilterMap(heap, reviewDocumentCommentThreads)
              /\ lastOp' = [Op("deleteReview") EXCEPT !.ids = deletedReviewComments,
                                                       !.mutated = TRUE]
    /\ fired' = NotFired
    /\ UNCHANGED <<localFileChanges, obsoleteFileChanges, initialized, inflight>>
    /\ UNCHANGED <<rmVars, nodeVars, fileChanges, comments, updateCalls, mutations>>

\* What the comment handlers never write.
HandlerFrame ==
    UNCHANGED <<rmVars, nodeVars, localFileChanges, obsoleteFileChanges,
                workspaceFileChangeCommentThreads, obsoleteFileChangeCommentThreads,
                prDocumentCommentThreads, reviewDocumentCommentThreads, initialized,
                inflight, updateCalls>>

\* The operation a suspended handler belongs to.
OperationOf(kind) ==
    CASE kind \in {"createCommentReply", "createComment"} -> "createOrReplyComment"
      [] kind = "inDraftMode" -> "updateCommentThreadRoot"
      [] kind = "editReviewComment" -> "editComment"
      [] kind = "deleteReviewComment" -> "deleteComment"
      [] kind = "addCommentReaction" -> "addReaction"
      [] kind = "deleteCommentReaction" -> "deleteReaction"
      [] OTHER -> "deleteReview"

\* The server call a handler awaits rejects: the await throws and the handler ends
\* without running the statements behind it.
remoteCallRejected(h) ==
    /\ handlers' = handlers \ {h}
    /\ lastOp' = [Op(OperationOf(h.kind)) EXCEPT !.threw = TRUE, !.rejected = TRUE]
    /\ fired' = NotFired
    /\ UNCHANGED <<threads, fileChanges, comments, mutations>>
    /\ HandlerFrame

\* ------------------------------------- ReviewDocumentCommentProvider.update

\* The bound on the calls of update() in one behaviour.
MaxUpdates == 2

\* The provider state the loops of update() work on.
Views(heap, workspace, prDocument, reviewDocument, suspended) ==
    [threads |-> heap, workspace |-> workspace, prDocument |-> prDocument,
     reviewDocument |-> reviewDocument, inflight |-> suspended, threw |-> FALSE]

\* updateFileChangeCommentThreads up to its await of diffWith.  Without a file change of
\* that name the threads of the workspace entry are disposed and the entry deleted; when
\* there is no such entry the forEach throws and the call ends there, awaited by nobody.
\* Otherwise the call suspends holding the entry's threads and the matched file change.
updateFileChangeCommentThreads(v, fcHeap, fcs, fileName) ==
    LET matchedFileChanges == SelectSeq(fcs, LAMBDA fc : fcHeap[fc].fileName = fileName)
        hasEntry == fileName \in DOMAIN v.workspace
    IN  IF matchedFileChanges = <<>>
        THEN IF hasEntry
             THEN [v EXCEPT !.threads = DisposeAll(@, v.workspace[fileName]),
                            !.workspace = Remove(@, fileName)]
             ELSE v
        ELSE [v EXCEPT !.inflight = @ \cup
                  {Suspended("update", fileName, matchedFileChanges[1],
                             IF hasEntry THEN v.workspace[fileName] ELSE <<>>,
                             hasEntry, FileUri(fileName))}]

\* One loop of update() over the keys of a file-keyed map.
RECURSIVE UpdateFileChanges(_, _, _, _)
UpdateFileChanges(v, fcHeap, fcs, keys) ==
    IF keys = <<>> THEN v
    ELSE UpdateFileChanges(updateFileChangeCommentThreads(v, fcHeap, fcs, Head(keys)),
                           fcHeap, fcs, Tail(keys))

\* The threads of `ts` whose threadId is `threadId`.
WithThreadId(heap, ts, threadId) ==
    SelectSeq(ts, LAMBDA t : heap[t].threadId = threadId)

\* updatePRorReviewCommentThreads on the entry of a PR document: a thread of the entry
\* whose threadId the file has gives way to the file's thread object, any other is
\* disposed; a thread of the file the entry did not have is created for the document.
updatePRorReviewCommentThreads(heap, ts, matchedFileCommentThreads) ==
    LET kept == SelectSeq(ts, LAMBDA t :
                    WithThreadId(heap, matchedFileCommentThreads, heap[t].threadId) # <<>>)
        gone == SelectSeq(ts, LAMBDA t :
                    WithThreadId(heap, matchedFileCommentThreads, heap[t].threadId) = <<>>)
        missing == SelectSeq(matchedFileCommentThreads, LAMBDA t :
                    WithThreadId(heap, ts, heap[t].threadId) = <<>>)
        descs == [k \in 1..Len(missing) |->
                    [threadId |-> heap[missing[k]].threadId,
                     resource |-> heap[ts[1]].resource,
                     comments |-> heap[missing[k]].comments]]
    IN  [threads |-> NewThreads(DisposeAll(heap, gone), descs),
         entry |-> [k \in 1..Len(kept) |->
                       WithThreadId(heap, matchedFileCommentThreads,
                                    heap[kept[k]].threadId)[1]]
                   \o NewThreadRefs(heap, descs)]

\* update(), the loop over the PR documents.
RECURSIVE UpdatePRDocuments(_, _)
UpdatePRDocuments(v, keys) ==
    IF keys = <<>> THEN v
    ELSE LET fileName == Head(keys)
             ts == v.prDocument[fileName]
             matchedFileCommentThreads ==
                 IF fileName \in DOMAIN v.workspace THEN v.workspace[fileName] ELSE <<>>
             r == updatePRorReviewCommentThreads(v.threads, ts, matchedFileCommentThreads)
             next == IF matchedFileCommentThreads = <<>>
                     THEN [v EXCEPT !.threads = DisposeAll(@, ts),
                                    !.prDocument = Remove(@, fileName)]
                     ELSE IF ts = <<>> THEN v
                     ELSE [v EXCEPT !.threads = r.threads,
                                    !.prDocument = Put(@, fileName, r.entry)]
         IN  UpdatePRDocuments(next, Tail(keys))

\* update(), the loop over the review documents.  The loop takes the threads to follow
\* from the document's commit, and then reads and writes the map under the file name,
\* where the entries are kept under the document's uri: without threads to follow the
\* forEach on the missing entry throws and update() ends there.
RECURSIVE UpdateReviewDocuments(_, _, _, _, _)
UpdateReviewDocuments(v, fcHeap, obsoleteFcs, obsoleteMap, keys) ==
    IF keys = <<>> \/ v.threw THEN v
    ELSE LET params == fromReviewUri(Head(keys))
             fileName == params.path
             obsoleteFileChange ==
                 SelectSeq(obsoleteFcs, LAMBDA fc : /\ fcHeap[fc].sha = params.commit
                                                    /\ fcHeap[fc].fileName = fileName)
             matchedFileCommentThreads ==
                 IF params.commit = "head"
                 THEN IF fileName \in DOMAIN v.workspace THEN v.workspace[fileName] ELSE <<>>
                 ELSE IF obsoleteFileChange # <<>> /\ fileName \in DOMAIN obsoleteMap
                 THEN obsoleteMap[fileName]
                 ELSE <<>>
             hasEntry == fileName \in DOMAIN v.reviewDocument
             ts == v.reviewDocument[fileName]
             r == updatePRorReviewCommentThreads(v.threads, ts, matchedFileCommentThreads)
             next == IF matchedFileCommentThreads = <<>>
                     THEN IF hasEntry
                          THEN [v EXCEPT !.threads = DisposeAll(@, ts),
                                         !.reviewDocument = Remove(@, fileName)]
                          ELSE [v EXCEPT !.threw = TRUE]
                     ELSE IF ~hasEntry \/ ts = <<>> THEN v
                     ELSE [v EXCEPT !.threads = r.threads,
                                    !.reviewDocument = Put(@, fileName, r.entry)]
         IN  UpdateReviewDocuments(next, fcHeap, obsoleteFcs, obsoleteMap, Tail(keys))

\* The file change objects of a list, as they are now.
Contents(fcs) == [k \in 1..Len(fcs) |-> fileChanges[fcs[k]]]

\* update(localFileChanges, obsoleteFileChanges) after its await of inDraftMode, with
\* the file change objects the review manager built of one fetch.
update(sn) ==
    /\ initialized
    /\ updateCalls < MaxUpdates
    /\ updateCalls' = updateCalls + 1
    /\ LET local == LocalFileChangesOf(sn)
           obsolete == ObsoleteFileChangesOf(sn)
           fcHeap == fileChanges \o local \o obsolete
           newLocal == Refs(Len(fileChanges), Len(local))
           newObsolete == Refs(Len(fileChanges) + Len(local), Len(obsolete))
           v0 == Views(threads, workspaceFileChangeCommentThreads,
                       prDocumentCommentThreads, reviewDocumentCommentThreads, inflight)
           v1 == UpdateFileChanges(v0, fcHeap, newLocal,
                                   FileKeys(workspaceFileChangeCommentThreads))
           v2 == UpdateFileChanges(v1, fcHeap, newObsolete,
                                   FileKeys(obsoleteFileChangeCommentThreads))
           v3 == UpdatePRDocuments(v2, FileKeys(prDocumentCommentThreads))
           v4 == UpdateReviewDocuments(v3, fcHeap, newObsolete,
                                       obsoleteFileChangeCommentThreads,
                                       ReviewKeys(reviewDocumentCommentThreads))
       IN  /\ Len(v4.threads) <= MaxThreads
           /\ fileChanges' = fcHeap
           /\ localFileChanges' = newLocal
           /\ obsoleteFileChanges' = newObsolete
           /\ threads' = v4.threads
           /\ workspaceFileChangeCommentThreads' = v4.workspace
           /\ prDocumentCommentThreads' = v4.prDocument
           /\ reviewDocumentCommentThreads' = v4.reviewDocument
           /\ inflight' = v4.inflight
           /\ Cardinality(v4.inflight) <= MaxSuspended
           /\ lastOp' = [Op("update") EXCEPT
                            !.threw = v4.threw,
                            !.alone = inflight = {},
                            !.again = /\ inflight = {}
                                      /\ lastOp.alone
                                      /\ Contents(localFileChanges) = local
                                      /\ Contents(obsoleteFileChanges) = obsolete]
    /\ fired' = NotFired
    /\ UNCHANGED <<rmVars, nodeVars, comments, initialized, handlers, mutations,
                   obsoleteFileChangeCommentThreads>>

\* updateFileChangeCommentThreads after its await of diffWith, with the threads and the
\* file change it held across the await.  A thread it held whose threadId the file
\* change's comments still give takes the new comments and stays; a threadId it did not
\* hold gets a new thread; a thread it held whose threadId is gone is disposed; the
\* result becomes the workspace entry.  A call that found no entry throws on its first
\* use of the threads it holds, before it changed anything.
resumeUpdateFileChangeCommentThreads(call) ==
    /\ call.kind = "update"
    /\ LET fileName == call.fileName
           existingCommentThreads == call.existing
           matchedFile == fileChanges[call.matchedFile]
           newThreads == workspaceLocalCommentsToCommentThreads(matchedFile.comments)
           matchedThread(d) == WithThreadId(threads, existingCommentThreads, d.threadId)
           created == SelectSeq(newThreads, LAMBDA d : matchedThread(d) = <<>>)
           createdBefore(n) ==
               Len(SelectSeq(SubSeq(newThreads, 1, n), LAMBDA d : matchedThread(d) = <<>>))
           updated == [t \in DOMAIN threads |->
                          LET ds == SelectSeq(newThreads, LAMBDA d :
                                        /\ matchedThread(d) # <<>>
                                        /\ matchedThread(d)[1] = t)
                          IN  IF ds = <<>> THEN threads[t]
                              ELSE [threads[t] EXCEPT !.comments = ds[Len(ds)].comments]]
           unmatched == SelectSeq(existingCommentThreads, LAMBDA t :
                            ~\E n \in 1..Len(newThreads) :
                                newThreads[n].threadId = threads[t].threadId)
           resultThreads == [n \in 1..Len(newThreads) |->
                                IF matchedThread(newThreads[n]) # <<>>
                                THEN matchedThread(newThreads[n])[1]
                                ELSE Len(threads) + createdBefore(n)]
       IN  IF call.hasExisting
           THEN /\ Len(threads) + Len(created) <= MaxThreads
                /\ threads' = DisposeAll(NewThreads(updated, created), unmatched)
                /\ workspaceFileChangeCommentThreads' =
                       Put(workspaceFileChangeCommentThreads, fileName, resultThreads)
                /\ lastOp' = [Op("updateFileChangeCommentThreads") EXCEPT
                                 !.fileName = fileName,
                                 !.matchedFile = call.matchedFile,
                                 !.existing = existingCommentThreads,
                                 !.alone = lastOp.alone,
                                 !.again = lastOp.again]
           ELSE /\ UNCHANGED <<threads, workspaceFileChangeCommentThreads>>
                /\ lastOp' = [Op("updateFileChangeCommentThreads") EXCEPT
                                 !.fileName = fileName,
                                 !.matchedFile = call.matchedFile,
                                 !.threw = TRUE,
                                 !.alone = lastOp.alone,
                                 !.again = lastOp.again]
    /\ inflight' = inflight \ {call}
    /\ fired' = NotFired
    /\ UNCHANGED <<localFileChanges, obsoleteFileChanges, initialized,
                   obsoleteFileChangeCommentThreads, prDocumentCommentThreads,
                   reviewDocumentCommentThreads>>
    /\ ViewFrame

\* ------------------------------------- the provider under refreshes

\* The review manager once validateState has loaded pull request 1 on its branch.
ReviewMode ==
    /\ NoContentChanges
    /\ repo = [head |-> TRUE, commit |-> 1, upstream |-> TRUE, synced |-> TRUE]
    /\ prNumber = 1
    /\ activePullRequest = 1
    /\ lastCommitSha = 1
    /\ switchingToReviewMode = FALSE
    /\ validateStatusInProgress = 0
    /\ promises = <<NewPromise("resolved", 0)>>
    /\ switchPc = "idle"
    /\ rmComments = TRUE
    /\ providerRegistered = TRUE
    /\ updateMessageShown = FALSE
    /\ validateFound = "nothing"
    /\ pollTimers = 1
    /\ pollCalls = <<>>
    /\ pollOp = PollOp("constructor")

\* The provider as registerCommentProvider constructs it, with the data of one fetch.
InitViews ==
    /\ ReviewMode
    /\ \E sn \in Snapshots : InitProvider(sn)

NextViews ==
    \/ initializeWorkspaceCommentThreads
    \/ \E call \in inflight : initializeWorkspaceFile(call)
    \/ \E uri \in PRDocuments : initializeCommentThreadsForPRDocument(uri)
    \/ \E call \in inflight : providePRDocumentThreads(call)
    \/ \E sn \in Snapshots : update(sn)
    \/ \E call \in inflight : resumeUpdateFileChangeCommentThreads(call)

SpecViews == InitViews /\ [][NextViews]_vars

\* ------------------------------------- the provider under the user's commands

NextReview ==
    \/ initializeWorkspaceCommentThreads
    \/ \E call \in inflight : initializeWorkspaceFile(call)
    \/ \E uri \in PRDocuments : initializeCommentThreadsForPRDocument(uri)
    \/ \E call \in inflight : providePRDocumentThreads(call)
    \/ \E uri \in ReviewDocuments : initializeCommentThreadsForReviewDocument(uri)
    \/ \E call \in inflight : provideReviewDocumentThreads(call)
    \/ deleteReview
    \/ \E h \in handlers : deleteReviewDeleted(h)
    \/ \E h \in handlers : remoteCallRejected(h)

SpecReview == InitViews /\ [][NextReview]_vars

\* ------------------------------------- review deletion

\* The ids of a comment list, and the file changes the provider holds.
IdsOf(cs) == {cs[k].id : k \in 1..Len(cs)}

HeldFileChanges ==
    {localFileChanges[k] : k \in 1..Len(localFileChanges)}
        \cup {obsoleteFileChanges[k] : k \in 1..Len(obsoleteFileChanges)}

\* C2: once deleteReview has completed, no comment the server reported deleted is left
\* in the flat comment list or in the comments of a file change.
C2_NoDeletedCommentRemains ==
    lastOp.name = "deleteReview" /\ lastOp.mutated =>
        /\ IdsOf(comments) \cap lastOp.ids = {}
        /\ \A fc \in HeldFileChanges : IdsOf(fileChanges[fc].comments) \cap lastOp.ids = {}

\* The comments of a thread that a deletion of `deleted` leaves.
Surviving(cs, deleted) ==
    SelectSeq(cs, LAMBDA c : ~\E d \in deleted : ToString(d) = c.commentId)

\* What deleteReview must have made of one view map: every thread of the map holds its
\* former comments less the deleted ones, in their order; a thread left without comments
\* is disposed and gone from its entry while the others stay, in their order, undisposed
\* by this step; an entry without a thread left is deleted.
DeleteReviewPost(before, after, deleted) ==
    \A key \in DOMAIN before :
        LET left == SelectSeq(before[key], LAMBDA t :
                        Surviving(threads[t].comments, deleted) # <<>>)
        IN  /\ \A k \in 1..Len(before[key]) :
                  LET t == before[key][k]
                  IN  /\ threads'[t].comments = Surviving(threads[t].comments, deleted)
                      /\ threads'[t].comments = <<>> => threads'[t].disposed > threads[t].disposed
                      /\ threads'[t].comments # <<>> => threads'[t].disposed = threads[t].disposed
            /\ key \in DOMAIN after <=> left # <<>>
            /\ key \in DOMAIN after => after[key] = left

\* C3: a completed deleteReview leaves, in each of the four view maps, every thread with
\* its former comments minus the deleted ones in the same order, has disposed and removed
\* from its entry every thread left without comments, and has deleted every entry left
\* without threads.
C3_DeleteReviewFiltersViews ==
    [][lastOp'.name = "deleteReview" /\ lastOp'.mutated =>
        /\ DeleteReviewPost(workspaceFileChangeCommentThreads,
                            workspaceFileChangeCommentThreads', lastOp'.ids)
        /\ DeleteReviewPost(obsoleteFileChangeCommentThreads,
                            obsoleteFileChangeCommentThreads', lastOp'.ids)
        /\ DeleteReviewPost(prDocumentCommentThreads,
                            prDocumentCommentThreads', lastOp'.ids)
        /\ DeleteReviewPost(reviewDocumentCommentThreads,
                            reviewDocumentCommentThreads', lastOp'.ids)
        /\ DOMAIN workspaceFileChangeCommentThreads'
               \subseteq DOMAIN workspaceFileChangeCommentThreads
        /\ DOMAIN obsoleteFileChangeCommentThreads'
               \subseteq DOMAIN obsoleteFileChangeCommentThreads
        /\ DOMAIN prDocumentCommentThreads' \subseteq DOMAIN prDocumentCommentThreads
        /\ DOMAIN reviewDocumentCommentThreads'
               \subseteq DOMAIN reviewDocumentCommentThreads]_vars

\* A review deleted with comments 2 and 3 of file a among its comments, while the
\* workspace, a PR document and a review document showed the file: the thread of 1 and 2
\* lives on with comment 1 alone and the thread of 3 is disposed.
C3_ReviewDeletedInAllViews ==
    /\ lastOp.name = "deleteReview"
    /\ lastOp.mutated
    /\ {2, 3} \subseteq lastOp.ids
    /\ \E fc \in HeldFileChanges : {1, 2, 3} \subseteq IdsOf(fileChanges[fc].comments)
    /\ "a" \in DOMAIN workspaceFileChangeCommentThreads
    /\ "a" \in DOMAIN prDocumentCommentThreads
    /\ UriString(ReviewUri("a", "head", FALSE)) \in DOMAIN reviewDocumentCommentThreads
    /\ \A t \in {workspaceFileChangeCommentThreads["a"][k] :
                    k \in 1..Len(workspaceFileChangeCommentThreads["a"])} :
           /\ threads[t].comments = <<convertToVSCodeComment(Comment(1, 0))>>
           /\ threads[t].disposed = 0
    /\ \E t \in DOMAIN threads : threads[t].threadId = "3" /\ threads[t].disposed = 1

\* ------------------------------------- reconciliation

\* The elements of a sequence, the threadIds of a thread list and of a projection.
Range(seq) == {seq[k] : k \in 1..Len(seq)}
ThreadIds(heap, ts) == {heap[t].threadId : t \in Range(ts)}
LiveThreadIds(heap, ts) == {heap[t].threadId : t \in {u \in Range(ts) : heap[u].disposed = 0}}
ProjectedIds(descs) == {descs[k].threadId : k \in 1..Len(descs)}

\* The file changes of a list that are of one file.
OfFile(heap, fcs, fileName) == SelectSeq(fcs, LAMBDA fc : heap[fc].fileName = fileName)

\* thread.dispose() has run on t in this step.
DisposedNow(t) == threads'[t].disposed > threads[t].disposed \/ threads'[t].disposed = 2

\* C4: a call of update() with the file changes of the call before it, made when that
\* call and the reconciliations it started have finished, disposes no thread, creates no
\* thread and leaves every view map with the thread objects it had, in every one of its
\* steps.
C4_SecondUpdateChangesNothing ==
    [][lastOp'.again =>
        /\ Len(threads') = Len(threads)
        /\ \A t \in DOMAIN threads : threads'[t].disposed = threads[t].disposed
        /\ workspaceFileChangeCommentThreads' = workspaceFileChangeCommentThreads
        /\ obsoleteFileChangeCommentThreads' = obsoleteFileChangeCommentThreads
        /\ prDocumentCommentThreads' = prDocumentCommentThreads
        /\ reviewDocumentCommentThreads' = reviewDocumentCommentThreads]_vars

\* The threadIds the comments of the new file change of a file give for its workspace
\* entry, and for a PR document of the side `base`.
WorkspaceProjection(fileName) ==
    LET matched == OfFile(fileChanges', localFileChanges', fileName)
    IN  IF matched = <<>> THEN {}
        ELSE ProjectedIds(workspaceLocalCommentsToCommentThreads(
                 fileChanges'[matched[1]].comments))

PRDocumentProjection(fileName, base) ==
    LET matched == OfFile(fileChanges', localFileChanges', fileName)
    IN  IF matched = <<>> THEN {}
        ELSE ProjectedIds(provideDocumentComments(PRUri(fileName, base), base,
                 fileChanges'[matched[1]].comments))

\* C5: a step of update() keeps, in the entry of every workspace file and of every PR
\* document, each undisposed thread whose threadId the new projection of the file still
\* has: the same object stays in the entry.
C5_ThreadIdentityPreserved ==
    [][/\ lastOp'.name = "update" =>
            \A fileName \in DOMAIN prDocumentCommentThreads :
                \A t \in Range(prDocumentCommentThreads[fileName]) :
                    /\ threads[t].disposed = 0
                    /\ threads[t].threadId \in
                           PRDocumentProjection(fileName, threads[t].resource.base)
                    => /\ fileName \in DOMAIN prDocumentCommentThreads'
                       /\ t \in Range(prDocumentCommentThreads'[fileName])
       /\ lastOp'.name = "updateFileChangeCommentThreads" /\ ~lastOp'.threw =>
            LET fileName == lastOp'.fileName
            IN  fileName \in DOMAIN workspaceFileChangeCommentThreads =>
                    \A t \in Range(workspaceFileChangeCommentThreads[fileName]) :
                        /\ threads[t].disposed = 0
                        /\ threads[t].threadId \in ProjectedIds(
                               workspaceLocalCommentsToCommentThreads(
                                   fileChanges[lastOp'.matchedFile].comments))
                        => t \in Range(workspaceFileChangeCommentThreads'[fileName])]_vars

\* C7: updateFileChangeCommentThreads, once complete, has disposed and removed from the
\* workspace entry every thread it found there whose threadId the new projection lacks,
\* has left in the entry exactly one thread per threadId of the new projection, and,
\* called with no file change of that name, has disposed every thread of the entry and
\* deleted the entry.
C7_UpdateFileChangeCommentThreadsPost ==
    [][/\ lastOp'.name = "updateFileChangeCommentThreads" /\ ~lastOp'.threw =>
            LET fileName == lastOp'.fileName
                projection == ProjectedIds(workspaceLocalCommentsToCommentThreads(
                                  fileChanges[lastOp'.matchedFile].comments))
            IN  /\ \A t \in Range(lastOp'.existing) :
                       threads[t].threadId \notin projection =>
                           /\ DisposedNow(t)
                           /\ t \notin Range(workspaceFileChangeCommentThreads'[fileName])
                /\ fileName \in DOMAIN workspaceFileChangeCommentThreads'
                /\ ThreadIds(threads', workspaceFileChangeCommentThreads'[fileName])
                       = projection
                /\ Len(workspaceFileChangeCommentThreads'[fileName])
                       = Cardinality(projection)
       /\ lastOp'.name = "update" =>
            \A fileName \in DOMAIN workspaceFileChangeCommentThreads :
                \/ OfFile(fileChanges', localFileChanges', fileName) = <<>>
                \/ /\ fileName \in DOMAIN obsoleteFileChangeCommentThreads
                   /\ OfFile(fileChanges', obsoleteFileChanges', fileName) = <<>>
                => /\ fileName \notin DOMAIN workspaceFileChangeCommentThreads'
                   /\ \A t \in Range(workspaceFileChangeCommentThreads[fileName]) :
                          DisposedNow(t)]_vars

\* A reconciliation of file a has just completed that found two threads in the entry,
\* disposed the one whose threadId the new comments lack, kept the other and created a
\* thread for a threadId it did not find.
C7_ReconciledWithAllThreeOutcomes ==
    /\ lastOp.name = "updateFileChangeCommentThreads"
    /\ ~lastOp.threw
    /\ LET entry == Range(workspaceFileChangeCommentThreads[lastOp.fileName])
           held == Range(lastOp.existing)
       IN  /\ \E t \in held \ entry : threads[t].disposed = 1
           /\ \E t \in held \cap entry : threads[t].disposed = 0
           /\ \E t \in entry \ held : threads[t].disposed = 0

\* The threadIds the newly supplied obsolete file changes give for a file, and those a
\* review document gets of the file changes the provider now holds.
ObsoleteProjection(fileName) ==
    LET matched == OfFile(fileChanges, obsoleteFileChanges, fileName)
    IN  IF matched = <<>> THEN {}
        ELSE ProjectedIds(outdatedCommentsToCommentThreads(
                 fileChanges[matched[1]], fileChanges[matched[1]].comments))

ReviewDocumentProjection(reviewUriString) ==
    ProjectedIds(provideCommentInfoForReviewUri(fromReviewUri(reviewUriString)).threads)

\* The reconciliations update() started have all finished.
UpdateCompleted ==
    /\ updateCalls > 0
    /\ lastOp.name \in {"update", "updateFileChangeCommentThreads"}
    /\ \A call \in inflight : call.kind # "update"

\* C8: once update() and the reconciliations it started have completed, the threadIds of
\* the undisposed threads in every entry of the four view maps are those the projection
\* of the newly supplied file changes gives for the entry's file or document.
C8_ViewsMatchNewProjection ==
    UpdateCompleted =>
        /\ \A fileName \in DOMAIN workspaceFileChangeCommentThreads :
               LET matched == OfFile(fileChanges, localFileChanges, fileName)
               IN  LiveThreadIds(threads, workspaceFileChangeCommentThreads[fileName]) =
                       IF matched = <<>> THEN {}
                       ELSE ProjectedIds(workspaceLocalCommentsToCommentThreads(
                                fileChanges[matched[1]].comments))
        /\ \A fileName \in DOMAIN obsoleteFileChangeCommentThreads :
               LiveThreadIds(threads, obsoleteFileChangeCommentThreads[fileName])
                   = ObsoleteProjection(fileName)
        /\ \A fileName \in DOMAIN prDocumentCommentThreads :
               \E base \in BOOLEAN :
                   LET matched == OfFile(fileChanges, localFileChanges, fileName)
                   IN  LiveThreadIds(threads, prDocumentCommentThreads[fileName]) =
                           IF matched = <<>> THEN {}
                           ELSE ProjectedIds(provideDocumentComments(
                                    PRUri(fileName, base), base,
                                    fileChanges[matched[1]].comments))
        /\ \A reviewUriString \in DOMAIN reviewDocumentCommentThreads :
               LiveThreadIds(threads, reviewDocumentCommentThreads[reviewUriString])
                   = ReviewDocumentProjection(reviewUriString)

\* C9: no two executions of updateFileChangeCommentThreads for the same file are
\* suspended at their await at the same time.
C9_ReconciliationsNeverOverlap ==
    \A c1, c2 \in inflight :
        c1.kind = "update" /\ c2.kind = "update" /\ c1.fileName = c2.fileName => c1 = c2

\* ------------------------------------- PRNode.getChildren

\* The bounds on the calls of getChildren and on the thread objects of the node.
MaxRefreshes == 3
MaxNodeThreads == 9

NodeFrame == UNCHANGED <<rmVars, provVars, nodeHandlers>>

\* commentsEditedInThread with the reactions of the comments left out of the comparison.
commentsEditedInThreadBodies(oldComments, newComments) ==
    \E k \in 1..Len(oldComments) :
        LET matchingComment ==
                SelectSeq(newComments, LAMBDA c : c.commentId = oldComments[k].commentId)
        IN  \/ Len(matchingComment) # 1
            \/ matchingComment[1].body # oldComments[k].body

\* commentsEditedInThread: some old comment has not exactly one new comment of its id,
\* or has one with another body, or with reactions of another number, or with a
\* reaction of another label or another hasReacted at some index.  (commentReactions
\* is a list on every comment of this model, never undefined.)
commentsEditedInThread(oldComments, newComments) ==
    \E k \in 1..Len(oldComments) :
        LET oldComment == oldComments[k]
            matchingComment ==
                SelectSeq(newComments, LAMBDA c : c.commentId = oldComment.commentId)
        IN  \/ Len(matchingComment) # 1
            \/ matchingComment[1].body # oldComment.body
            \/ Len(matchingComment[1].commentReactions) # Len(oldComment.commentReactions)
            \/ \E i \in 1..Len(matchingComment[1].commentReactions) :
                   \/ matchingComment[1].commentReactions[i].label
                          # oldComment.commentReactions[i].label
                   \/ matchingComment[1].commentReactions[i].hasReacted
                          # oldComment.commentReactions[i].hasReacted

\* PRNode.createCommentThread: a thread object per descriptor, the file's entry replaced.
NodeCreateCommentThread(n, fileName, descs) ==
    [n EXCEPT !.threads = NewThreads(@, descs),
              !.map = Put(@, fileName, NewThreadRefs(n.threads, descs))]

\* PRNode.updateFileChangeCommentThreads: the old threads of one side of a file against
\* the side's new projection.
NodeUpdateFileChangeCommentThreads(n, oldCommentThreads, newCommentThreads, fileName) ==
    LET disposed == DisposeAll(n.threads, oldCommentThreads)
        matching(d) == WithThreadId(n.threads, oldCommentThreads, d.threadId)
        added == SelectSeq(newCommentThreads, LAMBDA d : matching(d) = <<>>)
        refreshed ==
            [t \in DOMAIN disposed |->
                LET ds == SelectSeq(newCommentThreads, LAMBDA d :
                              /\ t \in Range(matching(d))
                              /\ \/ Len(n.threads[t].comments) # Len(d.comments)
                                 \/ commentsEditedInThread(
                                        n.threads[matching(d)[1]].comments, d.comments))
                IN  IF ds = <<>> THEN disposed[t]
                    ELSE [disposed[t] EXCEPT !.comments = ds[Len(ds)].comments]]
        updated == [n EXCEPT !.threads = refreshed]
    IN  IF added = <<>> THEN updated
        ELSE NodeCreateCommentThread(updated, fileName, added)

\* PRNode.updateComments, its loop from the i-th of this._fileChanges on.  A file without
\* an entry in the map makes the filter throw; getChildren catches that.
RECURSIVE NodeUpdateComments(_, _, _)
NodeUpdateComments(n, fcs, i) ==
    IF i > Len(nodeFileChanges) \/ n.threw THEN n
    ELSE LET oldFileChange == nodeFileChanges[i]
             fileName == oldFileChange.fileName
             newFileChanges == SelectSeq(fcs, LAMBDA fc : fc.fileName = fileName)
             newFileChange == newFileChanges[1]
             left == NodeUpdateFileChangeCommentThreads(n,
                         SelectSeq(n.map[fileName], LAMBDA t :
                             n.threads[t].resource = PRUri(fileName, TRUE)),
                         provideDocumentComments(PRUri(fileName, TRUE), TRUE,
                                                 newFileChange.comments),
                         fileName)
             right == NodeUpdateFileChangeCommentThreads(left,
                          SelectSeq(left.map[fileName], LAMBDA t :
                              left.threads[t].resource = PRUri(fileName, FALSE)),
                          provideDocumentComments(PRUri(fileName, FALSE), TRUE,
                                                  newFileChange.comments),
                          fileName)
         IN  IF newFileChanges = <<>> THEN NodeUpdateComments(n, fcs, i + 1)
             ELSE IF fileName \notin DOMAIN n.map THEN [n EXCEPT !.threw = TRUE]
             ELSE NodeUpdateComments(right, fcs, i + 1)

\* getChildren, its forEach over this._fileChanges once the controller is created: both
\* sides of every file projected, the threads created, the file's entry replaced.
RECURSIVE NodeCreateAll(_, _)
NodeCreateAll(n, fcs) ==
    IF fcs = <<>> THEN n
    ELSE LET fileChange == Head(fcs)
             leftComments == provideDocumentComments(PRUri(fileChange.fileName, TRUE), TRUE,
                                                     fileChange.comments)
             rightComments == provideDocumentComments(PRUri(fileChange.fileName, FALSE),
                                                      FALSE, fileChange.comments)
         IN  NodeCreateAll(NodeCreateCommentThread(n, fileChange.fileName,
                                                   leftComments \o rightComments),
                           Tail(fcs))

NodeState == [threads |-> nodeThreads, map |-> nodeFileChangeCommentThreads, threw |-> FALSE]

NodeOp(name) == [name |-> name, fileChanges |-> <<>>, threw |-> FALSE]

\* getChildren up to its await of getPullRequestComments.
getChildren ==
    /\ nodeRefreshes < MaxRefreshes
    /\ nodeRefreshes' = nodeRefreshes + 1
    /\ nodeCalls' = nodeCalls \cup
           {[id |-> nodeRefreshes + 1, pc |-> "getPullRequestComments", fileChanges |-> <<>>]}
    /\ nodeOp' = NodeOp("getChildren")
    /\ UNCHANGED <<nodeFileChanges, nodeThreads, nodeFileChangeCommentThreads,
                   nodeCommentController>>
    /\ NodeFrame

\* getChildren once the comments and the diff are fetched and the file changes built, up
\* to its await of inDraftMode.
getChildrenFetched(call) ==
    /\ call.pc = "getPullRequestComments"
    /\ \E sn \in Snapshots :
           nodeCalls' = (nodeCalls \ {call}) \cup
               {[call EXCEPT !.pc = "inDraftMode", !.fileChanges = LocalFileChangesOf(sn)]}
    /\ nodeOp' = NodeOp("getChildrenFetched")
    /\ UNCHANGED <<nodeFileChanges, nodeThreads, nodeFileChangeCommentThreads,
                   nodeCommentController, nodeRefreshes>>
    /\ NodeFrame

\* getChildren after inDraftMode: with a controller it calls updateComments, which waits
\* for inDraftMode in its turn; without one it creates the controller and the threads.
getChildrenInDraftMode(call) ==
    /\ call.pc = "inDraftMode"
    /\ nodeFileChanges' = call.fileChanges
    /\ IF nodeCommentController
       THEN /\ nodeCalls' = (nodeCalls \ {call}) \cup {[call EXCEPT !.pc = "updateComments"]}
            /\ UNCHANGED <<nodeThreads, nodeFileChangeCommentThreads, nodeCommentController>>
       ELSE LET created == NodeCreateAll(NodeState, call.fileChanges)
            IN  /\ Len(created.threads) <= MaxNodeThreads
                /\ nodeCalls' = nodeCalls \ {call}
                /\ nodeThreads' = created.threads
                /\ nodeFileChangeCommentThreads' = created.map
                /\ nodeCommentController' = TRUE
    /\ nodeOp' = NodeOp("getChildrenInDraftMode")
    /\ UNCHANGED nodeRefreshes
    /\ NodeFrame

\* updateComments after its await of inDraftMode, and the rest of getChildren behind it.
updateComments(call) ==
    /\ call.pc = "updateComments"
    /\ LET updated == NodeUpdateComments(NodeState, call.fileChanges, 1)
           created == NodeCreateAll(updated, call.fileChanges)
       IN  IF updated.threw
           THEN /\ nodeThreads' = updated.threads
                /\ nodeFileChangeCommentThreads' = updated.map
                /\ UNCHANGED nodeFileChanges
           ELSE /\ Len(created.threads) <= MaxNodeThreads
                /\ nodeThreads' = created.threads
                /\ nodeFileChangeCommentThreads' = created.map
                /\ nodeFileChanges' = call.fileChanges
    /\ nodeCalls' = nodeCalls \ {call}
    /\ nodeOp' = [NodeOp("updateComments") EXCEPT
                     !.fileChanges = call.fileChanges,
                     !.threw = NodeUpdateComments(NodeState, call.fileChanges, 1).threw]
    /\ UNCHANGED <<nodeCommentController, nodeRefreshes>>
    /\ NodeFrame

\* The node of a pull request that is not checked out, refreshed again and again.
InitPRNode ==
    /\ ReviewMode
    /\ InitProvider([ids |-> {}, files |-> {}])

NextPRNode ==
    \/ getChildren
    \/ \E call \in nodeCalls : getChildrenFetched(call)
    \/ \E call \in nodeCalls : getChildrenInDraftMode(call)
    \/ \E call \in nodeCalls : updateComments(call)

SpecPRNode == InitPRNode /\ [][NextPRNode]_vars

\* C6: a refresh of the node disposes no thread whose threadId the new projection of the
\* thread's document still has.
C6_MatchedThreadsNotDisposed ==
    [][nodeOp'.name = "updateComments" =>
        \A fileName \in DOMAIN nodeFileChangeCommentThreads :
            \A t \in Range(nodeFileChangeCommentThreads[fileName]) :
                LET newFileChanges == SelectSeq(nodeOp'.fileChanges,
                                                LAMBDA fc : fc.fileName = fileName)
                IN  /\ newFileChanges # <<>>
                    /\ nodeThreads[t].threadId \in ProjectedIds(
                           provideDocumentComments(nodeThreads[t].resource, TRUE,
                                                   newFileChanges[1].comments))
                    => nodeThreads'[t].disposed = nodeThreads[t].disposed]_vars

\* ------------------------------------- the comment handlers of the provider

\* The bound on the empty threads created in one behaviour, and the text of the input
\* box.
MaxEmptyThreads == 1
InputText == 1

\* The lines of the diff a new thread can be created at.
Positions == {1, 2}

\* Number(commentId): the id whose decimal form the string is.
NumberOf(commentId) ==
    CHOOSE i \in 0..(Cardinality(Ids) + MaxMutations) : ToString(i) = commentId

\* findMatchedFileByUri
findMatchedFileByUri(uri) ==
    LET isOutdated == uri.scheme = "review" /\ uri.commit = "old"
        fileChangesToSearch == IF isOutdated THEN obsoleteFileChanges ELSE localFileChanges
        matchedFiles == SelectSeq(fileChangesToSearch,
                                  LAMBDA fc : fileChanges[fc].fileName = uri.path)
    IN  IF matchedFiles # <<>> THEN matchedFiles[1] ELSE 0

\* A guard on the position that lets every position through.
PositionNeverRejected(position) == FALSE

\* `if (position < 0) { throw new Error('Comment position cannot be negative'); }`
PositionRejected(position) == position < 0

\* The comment the server answers createComment and createCommentReply with.
CreatedComment(id, fileName, position) ==
    [Comment(id, InputText) EXCEPT !.path = fileName, !.position = position,
                                   !.originalPosition = position,
                                   !.originalCommitId = "head",
                                   !.pullRequestReviewId = 1]

\* A suspended handler: the server call it waits for and the locals it holds.
Handler(kind, thread, commentId, matchedFile, rawComment) ==
    [kind |-> kind, thread |-> thread, commentId |-> commentId,
     matchedFile |-> matchedFile, rawComment |-> rawComment]

\* findIndex by c.id.toString() === commentId, 0 for -1.
FindIndex(cs, commentId) ==
    IF \E k \in 1..Len(cs) : ToString(cs[k].id) = commentId
    THEN CHOOSE k \in 1..Len(cs) :
             /\ ToString(cs[k].id) = commentId
             /\ \A j \in 1..(k - 1) : ToString(cs[j].id) # commentId
    ELSE 0

\* splice(index, 1, item) and splice(index, 1), both only for an index found.
Splice(cs, index, items) ==
    IF index = 0 THEN cs
    ELSE SubSeq(cs, 1, index - 1) \o items \o SubSeq(cs, index + 1, Len(cs))

\* A start of a handler that puts the comment it holds into the flat list before the
\* server has answered.
StartedOptimistically(name, handler, threw) ==
    /\ mutations < MaxMutations
    /\ mutations' = mutations + 1
    /\ handlers' = IF threw THEN handlers ELSE handlers \cup {handler}
    /\ lastOp' = [Op(name) EXCEPT !.threw = threw]
    /\ fired' = NotFired
    /\ comments' = Append(comments, handler.rawComment)
    /\ UNCHANGED <<threads, fileChanges>>
    /\ HandlerFrame

\* The start of a handler that changes nothing but the set of suspended handlers, or
\* that throws.
Started(name, handler, threw) ==
    /\ mutations < MaxMutations
    /\ mutations' = mutations + 1
    /\ handlers' = IF threw THEN handlers ELSE handlers \cup {handler}
    /\ lastOp' = [Op(name) EXCEPT !.threw = threw]
    /\ fired' = NotFired
    /\ UNCHANGED <<threads, fileChanges, comments>>
    /\ HandlerFrame

\* createEmptyCommentThread after authenticate: a thread without id and comments on the
\* document, in no map.
createEmptyCommentThread(uri) ==
    /\ Len(threads) < MaxThreads
    /\ Cardinality({t \in DOMAIN threads : threads[t].threadId = ""}) < MaxEmptyThreads
    /\ threads' = NewThreads(threads, <<[threadId |-> "", resource |-> uri,
                                         comments |-> <<>>]>>)
    /\ lastOp' = Op("createEmptyCommentThread")
    /\ fired' = NotFired
    /\ UNCHANGED <<fileChanges, comments, handlers, mutations>>
    /\ HandlerFrame

\* createOrReplyComment after authenticate, up to the await of createCommentReply or,
\* through updateCommentThreadRoot and its diffWith, of createComment.
createOrReplyComment(t) ==
    /\ threads[t].disposed = 0
    /\ LET id == Cardinality(Ids) + mutations + 1
           matchedFile == findMatchedFileByUri(threads[t].resource)
       IN  IF threads[t].comments # <<>>
           THEN Started("createOrReplyComment",
                        Handler("createCommentReply", t, threads[t].comments[1].commentId, 0,
                                CreatedComment(id, threads[t].resource.path, 0)),
                        FALSE)
           ELSE \E position \in Positions \cup {-1} :
                    Started("createOrReplyComment",
                            Handler("createComment", t, "", matchedFile,
                                    CreatedComment(id, threads[t].resource.path, position)),
                            matchedFile = 0 \/ PositionRejected(position))

\* createOrReplyComment after createCommentReply: the reply joins the thread.
createCommentReplied(h) ==
    /\ h.kind = "createCommentReply"
    /\ threads' = [threads EXCEPT ![h.thread].comments =
                       Append(@, convertToVSCodeComment(h.rawComment))]
    /\ handlers' = handlers \ {h}
    /\ lastOp' = [Op("createOrReplyComment") EXCEPT !.mutated = TRUE]
    /\ fired' = NotFired
    /\ UNCHANGED <<fileChanges, comments, mutations>>
    /\ HandlerFrame

\* updateCommentThreadRoot after createComment, up to its await of inDraftMode.
updateCommentThreadRootCreated(h) ==
    /\ h.kind = "createComment"
    /\ threads' = [threads EXCEPT ![h.thread].comments =
                       <<convertToVSCodeComment(h.rawComment)>>]
    /\ handlers' = (handlers \ {h}) \cup {[h EXCEPT !.kind = "inDraftMode"]}
    /\ lastOp' = Op("updateCommentThreadRoot")
    /\ fired' = NotFired
    /\ UNCHANGED <<fileChanges, comments, mutations>>
    /\ HandlerFrame

\* updateCommentThreadRoot after inDraftMode, and the rest of createOrReplyComment.
updateCommentThreadRoot(h) ==
    /\ h.kind = "inDraftMode"
    /\ fileChanges' = [fileChanges EXCEPT ![h.matchedFile].comments = Append(@, h.rawComment)]
    /\ comments' = Append(comments, h.rawComment)
    /\ fired' = Fired(comments')
    /\ handlers' = handlers \ {h}
    /\ lastOp' = [Op("updateCommentThreadRoot") EXCEPT !.mutated = TRUE]
    /\ UNCHANGED <<threads, mutations>>
    /\ HandlerFrame

\* editComment after authenticate, up to its await of editReviewComment.
editComment(t, k) ==
    /\ threads[t].disposed = 0
    /\ LET comment == threads[t].comments[k]
           matchedFile == findMatchedFileByUri(threads[t].resource)
           rawComments == IF matchedFile = 0 THEN <<>>
                          ELSE SelectSeq(fileChanges[matchedFile].comments,
                                         LAMBDA c : c.id = NumberOf(comment.commentId))
       IN  Started("editComment",
                   Handler("editReviewComment", t, comment.commentId, matchedFile,
                           IF rawComments = <<>> THEN Comment(0, 0) ELSE rawComments[1]),
                   rawComments = <<>>)

\* editComment after editReviewComment.
editCommentEdited(h) ==
    /\ h.kind = "editReviewComment"
    /\ LET editedComment == [h.rawComment EXCEPT !.body = InputText]
           vscodeComment == convertToVSCodeComment(editedComment)
       IN  /\ fileChanges' = [fileChanges EXCEPT ![h.matchedFile].comments =
                                  Splice(@, FindIndex(@, h.commentId), <<editedComment>>)]
           /\ comments' = Splice(comments, FindIndex(comments, h.commentId),
                                 <<editedComment>>)
           /\ threads' = [threads EXCEPT ![h.thread].comments =
                              [j \in DOMAIN @ |->
                                  IF @[j].commentId = vscodeComment.commentId
                                  THEN vscodeComment ELSE @[j]]]
    /\ handlers' = handlers \ {h}
    /\ lastOp' = [Op("editComment") EXCEPT !.mutated = TRUE]
    /\ fired' = NotFired
    /\ UNCHANGED mutations
    /\ HandlerFrame

\* deleteComment up to its await of deleteReviewComment.
deleteComment(t, k) ==
    /\ threads[t].disposed = 0
    /\ LET matchedFile == findMatchedFileByUri(threads[t].resource)
       IN  Started("deleteComment",
                   Handler("deleteReviewComment", t, threads[t].comments[k].commentId,
                           matchedFile, Comment(0, 0)),
                   matchedFile = 0)

\* deleteComment after deleteReviewComment; behind its await of inDraftMode it touches
\* the pull request model only.
deleteCommentDeleted(h) ==
    /\ h.kind = "deleteReviewComment"
    /\ fileChanges' = [fileChanges EXCEPT ![h.matchedFile].comments =
                           Splice(@, FindIndex(@, h.commentId), <<>>)]
    /\ comments' = Splice(comments, FindIndex(comments, h.commentId), <<>>)
    /\ threads' = [threads EXCEPT ![h.thread].comments =
                       IF \E j \in DOMAIN @ : @[j].commentId = h.commentId
                       THEN Splice(@, CHOOSE j \in DOMAIN @ :
                                          /\ @[j].commentId = h.commentId
                                          /\ \A i \in 1..(j - 1) : @[i].commentId # h.commentId,
                                   <<>>)
                       ELSE @]
    /\ handlers' = handlers \ {h}
    /\ lastOp' = [Op("deleteComment") EXCEPT !.mutated = TRUE]
    /\ fired' = NotFired
    /\ UNCHANGED mutations
    /\ HandlerFrame

\* editReaction, for addReaction and deleteReaction, up to its await of the server call.
editReaction(t, k, addReaction) ==
    /\ threads[t].disposed = 0
    /\ LET comment == threads[t].comments[k]
           matchedFile == findMatchedFileByUri(threads[t].resource)
           rawComments == IF matchedFile = 0 THEN <<>>
                          ELSE SelectSeq(fileChanges[matchedFile].comments,
                                         LAMBDA c : c.id = NumberOf(comment.commentId))
       IN  Started(IF addReaction THEN "addReaction" ELSE "deleteReaction",
                   Handler(IF addReaction THEN "addCommentReaction"
                           ELSE "deleteCommentReaction",
                           t, comment.commentId, matchedFile,
                           IF rawComments = <<>> THEN Comment(0, 0) ELSE rawComments[1]),
                   rawComments = <<>>)

\* parseGraphQLReaction of the reaction groups the server answers with: the user's
\* thumbs-up after addCommentReaction, no reaction after deleteCommentReaction.
parseGraphQLReaction(added) ==
    IF added THEN <<[label |-> "+1", viewerHasReacted |-> TRUE]>> ELSE <<>>

\* editReaction after the server call: the reactions of the comment object of the file
\* change are replaced; the flat list holds the same object.
editReactionEdited(h) ==
    /\ h.kind \in {"addCommentReaction", "deleteCommentReaction"}
    /\ LET reactions == parseGraphQLReaction(h.kind = "addCommentReaction")
           matchingCommentIndex == FindIndex(fileChanges[h.matchedFile].comments, h.commentId)
           indexInAllComments == FindIndex(comments, h.commentId)
       IN  /\ fileChanges' =
                  IF matchingCommentIndex = 0 THEN fileChanges
                  ELSE [fileChanges EXCEPT
                           ![h.matchedFile].comments[matchingCommentIndex].reactions =
                               reactions]
           /\ comments' =
                  IF matchingCommentIndex = 0 \/ indexInAllComments = 0 THEN comments
                  ELSE [comments EXCEPT ![indexInAllComments].reactions = reactions]
    /\ handlers' = handlers \ {h}
    /\ lastOp' = [Op(IF h.kind = "addCommentReaction" THEN "addReaction"
                     ELSE "deleteReaction") EXCEPT !.mutated = TRUE]
    /\ fired' = NotFired
    /\ UNCHANGED <<threads, mutations>>
    /\ HandlerFrame

\* The documents the user opens an empty thread on.
Documents == {FileUri(f) : f \in Files}

NextComments ==
    \/ initializeWorkspaceCommentThreads
    \/ \E call \in inflight : initializeWorkspaceFile(call)
    \/ \E uri \in Documents : createEmptyCommentThread(uri)
    \/ \E t \in DOMAIN threads : createOrReplyComment(t)
    \/ \E h \in handlers : createCommentReplied(h)
    \/ \E h \in handlers : updateCommentThreadRootCreated(h)
    \/ \E h \in handlers : updateCommentThreadRoot(h)
    \/ \E t \in DOMAIN threads : \E k \in DOMAIN threads[t].comments : editComment(t, k)
    \/ \E h \in handlers : editCommentEdited(h)
    \/ \E t \in DOMAIN threads : \E k \in DOMAIN threads[t].comments : deleteComment(t, k)
    \/ \E h \in handlers : deleteCommentDeleted(h)
    \/ \E t \in DOMAIN threads : \E k \in DOMAIN threads[t].comments :
           \E addReaction \in BOOLEAN : editReaction(t, k, addReaction)
    \/ \E h \in handlers : editReactionEdited(h)
    \/ deleteReview
    \/ \E h \in handlers : deleteReviewDeleted(h)
    \/ \E h \in handlers : remoteCallRejected(h)

SpecComments == InitViews /\ [][NextComments]_vars

\* C10: the segment a comment mutation completes with has fired onDidChangeComments with
\* the flat comment list as it then is.
C10_MutationFiresOnDidChangeComments ==
    lastOp.mutated => fired.fired /\ fired.comments = comments

\* ------------------------------------- the comments the views show

\* The thread objects the four view maps hold.
ViewThreads ==
    UNION {UNION {Range(ViewMaps[m][key]) : key \in DOMAIN ViewMaps[m]} : m \in 1..4}

\* No handler and no reconciliation is suspended: every operation started has completed.
Quiescent == handlers = {} /\ inflight = {}

\* C11: once every operation has completed, each comment of a live thread of a view is
\* in the flat comment list and in the comments of the file change of the thread's
\* document.
C11_ThreadCommentsAreInFlatList ==
    Quiescent =>
        \A t \in ViewThreads :
            threads[t].disposed = 0 =>
                \A k \in 1..Len(threads[t].comments) :
                    LET id == NumberOf(threads[t].comments[k].commentId)
                        matchedFile == findMatchedFileByUri(threads[t].resource)
                    IN  /\ id \in IdsOf(comments)
                        /\ matchedFile # 0
                        /\ id \in IdsOf(fileChanges[matchedFile].comments)

\* The comment lists of the file changes and of the thread objects.
FileChangeComments == [fc \in DOMAIN fileChanges |-> fileChanges[fc].comments]
ThreadComments == [t \in DOMAIN threads |-> threads[t].comments]

\* The operations that make a mutating server call.
RemoteMutations ==
    {"createOrReplyComment", "editComment", "deleteComment", "deleteReview",
     "addReaction", "deleteReaction"}

\* C12: the steps of a comment operation up to and including the rejection of its server
\* call (its start, and the step the rejected call ends it with) leave the flat comment
\* list, the comments of every file change and the comments of every thread as they were.
C12_RejectedCallLeavesCommentsUnchanged ==
    [][lastOp'.name \in RemoteMutations /\ ~lastOp'.mutated =>
          /\ comments' = comments
          /\ [fc \in DOMAIN fileChanges' |-> fileChanges'[fc].comments] = FileChangeComments
          /\ [t \in DOMAIN threads' |-> threads'[t].comments] = ThreadComments]_vars

\* The server call of an edit of a comment of a live thread was rejected.
C12_EditRejected ==
    /\ lastOp.name = "editComment"
    /\ lastOp.rejected
    /\ \E t \in ViewThreads : threads[t].disposed = 0 /\ threads[t].comments # <<>>

\* The comments of a file shown in the workspace and in PR documents at once, and
\* deleted one by one.
NextDocuments ==
    \/ initializeWorkspaceCommentThreads
    \/ \E call \in inflight : initializeWorkspaceFile(call)
    \/ \E uri \in PRDocuments : initializeCommentThreadsForPRDocument(uri)
    \/ \E call \in inflight : providePRDocumentThreads(call)
    \/ \E t \in DOMAIN threads : \E k \in DOMAIN threads[t].comments : deleteComment(t, k)
    \/ \E h \in handlers : deleteCommentDeleted(h)
    \/ \E h \in handlers : remoteCallRejected(h)

SpecDocuments == InitViews /\ [][NextDocuments]_vars

\* C13: the step deleteComment completes with leaves the id of the deleted comment in
\* no place: not in the flat comment list, not in the comments of a file change the
\* provider holds, not in a live thread of a view.
C13_DeletedCommentIsNowhere ==
    [][lastOp'.name = "deleteComment" /\ lastOp'.mutated =>
          \A h \in handlers \ handlers' :
              /\ NumberOf(h.commentId) \notin IdsOf(comments')
              /\ \A fc \in HeldFileChanges :
                     NumberOf(h.commentId) \notin IdsOf(fileChanges'[fc].comments)
              /\ \A t \in ViewThreads :
                     threads'[t].disposed = 0 =>
                         \A k \in 1..Len(threads'[t].comments) :
                             threads'[t].comments[k].commentId # h.commentId]_vars

\* The workspace views refreshed by update() while comments are edited.
NextEdit ==
    \/ initializeWorkspaceCommentThreads
    \/ \E call \in inflight : initializeWorkspaceFile(call)
    \/ \E sn \in Snapshots : update(sn)
    \/ \E call \in inflight : resumeUpdateFileChangeCommentThreads(call)
    \/ \E t \in DOMAIN threads : \E k \in DOMAIN threads[t].comments : editComment(t, k)
    \/ \E h \in handlers : editCommentEdited(h)
    \/ \E h \in handlers : remoteCallRejected(h)

SpecEdit == InitViews /\ [][NextEdit]_vars

\* `after` is `before` with the one element of the id of `edited` replaced by `edited`, at
\* its index, and nothing else changed.
ReplacedInPlace(before, after, edited, key) ==
    /\ Len(after) = Len(before)
    /\ \E i \in 1..Len(before) :
           /\ before[i][key] = edited[key]
           /\ after[i] = edited
           /\ \A j \in 1..Len(before) : j # i => after[j] = before[j]

\* C14: the step editComment completes with puts the edited comment at the index of the
\* comment of its id in the flat comment list, in the comments of the file change and
\* in the comments of the thread, changes nothing else in the three lists, and keeps the
\* threadId of the thread.
C14_EditReplacesInPlace ==
    [][lastOp'.name = "editComment" /\ lastOp'.mutated =>
          \A h \in handlers \ handlers' :
              LET editedComment == [h.rawComment EXCEPT !.body = InputText]
              IN  /\ ReplacedInPlace(comments, comments', editedComment, "id")
                  /\ ReplacedInPlace(fileChanges[h.matchedFile].comments,
                                     fileChanges'[h.matchedFile].comments,
                                     editedComment, "id")
                  /\ ReplacedInPlace(threads[h.thread].comments,
                                     threads'[h.thread].comments,
                                     convertToVSCodeComment(editedComment), "commentId")
                  /\ threads'[h.thread].threadId = threads[h.thread].threadId]_vars

\* ------------------------------------- the outdated comments of a pull request

\* The pull requests with outdated comments: every set of comments with 4 or 5 in it,
\* on a diff of file a alone or of both files.
OutdatedSnapshots ==
    {[ids |-> I, files |-> F] :
        I \in {J \in SUBSET Ids : J \cap {4, 5} # {}}, F \in {{"a"}, {"a", "b"}}}

InitOutdated ==
    /\ ReviewMode
    /\ \E sn \in OutdatedSnapshots : InitProvider(sn)

NextOutdated ==
    \/ initializeWorkspaceCommentThreads
    \/ \E call \in inflight : initializeWorkspaceFile(call)

SpecOutdated == InitOutdated /\ [][NextOutdated]_vars

\* The originalPosition of the comment a comment of a thread was made of.
OriginalPositionOf(comment) == Comment(NumberOf(comment.commentId), 0).originalPosition

\* C15: the threads of the obsolete view are the groups by originalPosition: the comments
\* of one thread have one originalPosition, so that outdated comments of a file with
\* different originalPosition are in different threads.
C15_ObsoleteViewGroupsByOriginalPosition ==
    \A fileName \in DOMAIN obsoleteFileChangeCommentThreads :
        \A t \in Range(obsoleteFileChangeCommentThreads[fileName]) :
            \A j, k \in 1..Len(threads[t].comments) :
                OriginalPositionOf(threads[t].comments[j])
                    = OriginalPositionOf(threads[t].comments[k])

\* The live threads of one map entry have pairwise distinct threadIds.
DistinctThreadIds(heap, ts) ==
    \A j, k \in 1..Len(ts) :
        j # k /\ heap[ts[j]].disposed = 0 /\ heap[ts[k]].disposed = 0
            => heap[ts[j]].threadId # heap[ts[k]].threadId

\* C16: in every entry of the four view maps of the provider and of the per-file map of
\* the PRNode, the live threads have pairwise distinct threadIds.
C16_ThreadIdsDistinctWithinEntry ==
    /\ \A m \in 1..4 : \A key \in DOMAIN ViewMaps[m] :
           DistinctThreadIds(threads, ViewMaps[m][key])
    /\ \A fileName \in DOMAIN nodeFileChangeCommentThreads :
           DistinctThreadIds(nodeThreads, nodeFileChangeCommentThreads[fileName])

\* ------------------------------------- ReviewManager.validateState: the load path

\* registerCommentProvider awaits initialize(), which awaits
\* initializeWorkspaceCommentThreads: the segment after its await of inDraftMode runs
\* while validateState is suspended at `await this.registerCommentProvider()`.
LoadInitialize ==
    /\ \E p \in Running : promises[p].pc = "registerCommentProvider"
    /\ initializeWorkspaceCommentThreads

\* validateState resumed once initialize() has resolved. initialize awaits the promise of
\* initializeWorkspaceCommentThreads only: the promises of the forEach callbacks, each
\* suspended at diffWith, are dropped, so this segment does not wait for them.
LoadFinished(p) ==
    /\ initialized
    /\ ValidateAfterRegisterCommentProvider(p)

\* The first validateState of a session, with nothing else asking for a validation.
NextLoad ==
    \/ \E p \in DOMAIN promises : ValidateAfterUpdateRepositories(p)
    \/ \E p \in DOMAIN promises : ValidateAfterGetMetadata(p)
    \/ \E p \in DOMAIN promises : ValidateAfterResolvePullRequest(p)
    \/ \E p \in DOMAIN promises : ValidateAfterGetPullRequestData(p)
    \/ \E p \in DOMAIN promises : ValidateAfterShowPullRequestFileChanges(p)
    \/ LoadInitialize
    \/ \E call \in inflight : initializeWorkspaceFile(call)
    \/ \E p \in DOMAIN promises : LoadFinished(p)

\* The file changes and comments are the ones getPullRequestData fetches.
InitLoad ==
    /\ InitReviewManager
    /\ NoContentChanges
    /\ \E sn \in Snapshots : InitProvider(sn)

SpecLoad == InitLoad /\ [][NextLoad]_vars

\* Every file change of `fcs` has an entry in the thread map `map`.
HasEntryForEach(map, fcs) ==
    \A k \in 1..Len(fcs) : fileChanges[fcs[k]].fileName \in DOMAIN map

\* C17: the segment in which validateState finishes its load path (provider registered,
\* in-progress marker cleared) leaves the workspace thread map with an entry for every
\* local file change and the obsolete thread map with one for every obsolete file change.
C17_LoadFinishesWithAllThreadsBuilt ==
    [][(\E p \in Running : /\ promises[p].pc = "registerCommentProvider"
                           /\ promises'[p].status = "resolved")
          => /\ HasEntryForEach(workspaceFileChangeCommentThreads', localFileChanges')
             /\ HasEntryForEach(obsoleteFileChangeCommentThreads', obsoleteFileChanges')]_vars

\* ------------------------------------------ ReviewManager.pollForStatusChange

\* A call of updateComments suspended at an await, with its local `branch`.
PollCall(pc, branch) == [pc |-> pc, branch |-> branch]

\* The sequence `calls` without its k-th element.
WithoutCall(calls, k) ==
    [j \in 1..(Len(calls) - 1) |-> IF j < k THEN calls[j] ELSE calls[j + 1]]

\* The segments of the poll loop leave validateState and the provider alone.
PollFrame ==
    /\ UNCHANGED <<provVars, nodeVars, projected, validated, loadVars, cmdVars>>
    /\ UNCHANGED <<repo, prNumber, activePullRequest, lastCommitSha, switchingToReviewMode,
                   validateStatusInProgress, promises, switchPc, providerRegistered>>
    /\ validateFound' = "nothing"

\* The callback of a timer that re-arms the timer before its await is over.
TimersAfterTickArmedAtOnce(timers, done) == timers

\* The pending timers once the callback of one of `timers` has run up to the point
\* where it is suspended or done: the callback calls pollForStatusChange(), which arms
\* the next timer, only when it reaches its last statement, that is when its await of
\* updateComments() is over or was skipped.
TimersAfterTick(timers, done) ==
    IF done THEN timers ELSE timers - 1

\* A timer of pollForStatusChange fires. updateComments returns before its first await
\* when there is no HEAD, and the callback goes on to re-arm the timer.
PollTick ==
    /\ pollTimers > 0
    /\ IF validateStatusInProgress # 0
       THEN /\ pollTimers' = TimersAfterTick(pollTimers, TRUE)
            /\ pollOp' = PollOp("tick")
            /\ UNCHANGED pollCalls
       ELSE /\ pollTimers' = TimersAfterTick(pollTimers, ~repo.head)
            /\ pollOp' = [PollOp("tick") EXCEPT !.invoked = TRUE]
            /\ pollCalls' = IF repo.head
                            THEN Append(pollCalls, PollCall("getMetadata", repo))
                            ELSE pollCalls
    /\ UNCHANGED <<rmComments, updateMessageShown>>
    /\ PollFrame

\* updateComments returns or its last await resolves: the callback of the timer resumes
\* and arms the next timer.
PollSettled(k) ==
    /\ pollCalls' = WithoutCall(pollCalls, k)
    /\ pollTimers' = pollTimers + 1
    /\ pollOp' = PollOp("updateCommentsSettled")

\* updateComments resumed after `await getMatchingPullRequestMetadataForBranch()`.
PollAfterGetMetadata(k) ==
    /\ pollCalls[k].pc = "getMetadata"
    /\ \E meta \in {0} \cup PullRequests :
          IF \/ meta = 0
             \/ ~pollCalls[k].branch.upstream
             \/ prNumber = 0
             \/ activePullRequest = 0
          THEN PollSettled(k)
          ELSE /\ pollCalls' = [pollCalls EXCEPT ![k].pc = "resolvePullRequest"]
               /\ pollOp' = PollOp("updateComments")
               /\ UNCHANGED pollTimers
    /\ UNCHANGED <<rmComments, updateMessageShown>>
    /\ PollFrame

\* updateComments resumed after `await resolvePullRequest(...)`: either the pull request
\* is gone, or its head sha is `sha` and the branch is or is not behind its upstream.
PollAfterResolvePullRequest(k) ==
    /\ pollCalls[k].pc = "resolvePullRequest"
    /\ \/ /\ PollSettled(k)
          /\ UNCHANGED updateMessageShown
       \/ \E sha \in Commits, behind \in BOOLEAN :
            /\ behind => ~pollCalls[k].branch.synced
            /\ pollOp' = PollOp("updateComments")
            /\ UNCHANGED pollTimers
            /\ IF (sha # lastCommitSha \/ behind) /\ ~updateMessageShown
               THEN /\ updateMessageShown' = TRUE
                    /\ pollCalls' = [pollCalls EXCEPT ![k].pc = "showInformationMessage"]
               ELSE /\ UNCHANGED updateMessageShown
                    /\ pollCalls' = [pollCalls EXCEPT ![k].pc = "getPullRequestData"]
    /\ UNCHANGED rmComments
    /\ PollFrame

\* updateComments resumed after `await showInformationMessage(...)`.
PollAfterShowInformationMessage(k) ==
    /\ pollCalls[k].pc = "showInformationMessage"
    /\ \E result \in {"Pull", "undefined"} :
          pollCalls' = [pollCalls EXCEPT ![k].pc = IF result = "Pull" THEN "git.pull"
                                                   ELSE "getPullRequestData"]
    /\ pollOp' = PollOp("updateComments")
    /\ UNCHANGED <<pollTimers, rmComments, updateMessageShown>>
    /\ PollFrame

\* updateComments resumed after `await executeCommand('git.pull')`.
PollAfterGitPull(k) ==
    /\ pollCalls[k].pc = "git.pull"
    /\ updateMessageShown' = FALSE
    /\ pollCalls' = [pollCalls EXCEPT ![k].pc = "getPullRequestData"]
    /\ pollOp' = PollOp("updateComments")
    /\ UNCHANGED <<pollTimers, rmComments>>
    /\ PollFrame

\* updateComments resumed after `await this.getPullRequestData(pr)`, which catches its
\* own errors: it calls update() of the comment provider and awaits it.
PollAfterGetPullRequestData(k) ==
    /\ pollCalls[k].pc = "getPullRequestData"
    /\ rmComments' = TRUE
    /\ pollCalls' = [pollCalls EXCEPT ![k].pc = "update"]
    /\ pollOp' = PollOp("updateComments")
    /\ UNCHANGED <<pollTimers, updateMessageShown>>
    /\ PollFrame

\* updateComments resumed after `await this._reviewDocumentCommentProvider.update(...)`.
PollAfterUpdate(k) ==
    /\ pollCalls[k].pc = "update"
    /\ PollSettled(k)
    /\ UNCHANGED <<rmComments, updateMessageShown>>
    /\ PollFrame

\* An await of updateComments rejects: updateComments rejects, and so does the callback
\* of the timer at its own await, before it reaches pollForStatusChange().
PollRejected(k) ==
    /\ pollCalls[k].pc \in {"getMetadata", "resolvePullRequest", "git.pull", "update"}
    /\ pollCalls' = WithoutCall(pollCalls, k)
    /\ pollOp' = PollOp("updateCommentsRejected")
    /\ UNCHANGED <<pollTimers, rmComments, updateMessageShown>>
    /\ PollFrame

\* The poll loop next to the repository's state changes and the validations they start.
NextPoll ==
    \/ RepositoryStateChange
    \/ \E p \in DOMAIN promises : ValidateAfterUpdateRepositories(p)
    \/ \E p \in DOMAIN promises : ValidateAfterGetMetadata(p)
    \/ \E p \in DOMAIN promises : ValidateAfterResolvePullRequest(p)
    \/ \E p \in DOMAIN promises : ValidateAfterGetPullRequestData(p)
    \/ \E p \in DOMAIN promises : ValidateAfterShowPullRequestFileChanges(p)
    \/ \E p \in DOMAIN promises : ValidateAfterRegisterCommentProvider(p)
    \/ PollTick
    \/ \E k \in DOMAIN pollCalls : PollAfterGetMetadata(k)
    \/ \E k \in DOMAIN pollCalls : PollAfterResolvePullRequest(k)
    \/ \E k \in DOMAIN pollCalls : PollAfterShowInformationMessage(k)
    \/ \E k \in DOMAIN pollCalls : PollAfterGitPull(k)
    \/ \E k \in DOMAIN pollCalls : PollAfterGetPullRequestData(k)
    \/ \E k \in DOMAIN pollCalls : PollAfterUpdate(k)
    \/ \E k \in DOMAIN pollCalls : PollRejected(k)

SpecPoll == InitRM /\ [][NextPoll]_vars

\* C18: while a review session is active (a PR number and an active pull request are
\* set), a poll tick that fires when no execution of validateState is in flight calls
\* updateComments.
C18_TickInSessionCallsUpdateComments ==
    [][(/\ pollOp'.name = "tick"
        /\ pollVars' # pollVars
        /\ prNumber # 0
        /\ activePullRequest # 0
        /\ Running = {})
          => pollOp'.invoked]_vars

\* C19: at most one poll timer is pending, at most one updateComments started by a poll
\* tick is in flight, and no timer is pending while such a call is in flight.
C19_OnePollAtATime ==
    pollTimers + Len(pollCalls) <= 1

\* A poll tick has called updateComments, the call is suspended at an await and no
\* timer is pending.
C19_UpdateCommentsInFlight ==
    /\ pollOp.name = "updateComments"
    /\ Len(pollCalls) = 1
    /\ pollTimers = 0

\* C20: the segment in which validateState finds no HEAD, no pull request metadata for
\* the branch or no upstream remote leaves the PR number and the active pull request
\* undefined, the flat comment list empty and the session's comment provider disposed.
C20_SessionClearedWhenNothingToReview ==
    [][(validateFound' # "nothing" /\ promises' # promises)
          => /\ prNumber' = 0
             /\ activePullRequest' = 0
             /\ ~rmComments'
             /\ ~providerRegistered']_vars

\* ------------------------------------- PRNode: new comment threads

\* The bound on the comment handlers of the node started in one behaviour.
MaxNodeMutations == 2

\* A handler of the node suspended at createComment or createCommentReply.
NodeHandler(kind, thread, fileName, rawComment) ==
    [kind |-> kind, thread |-> thread, fileName |-> fileName, rawComment |-> rawComment]

\* The segments of the node's comment handlers leave the refreshes alone.
NodeHandlerFrame ==
    UNCHANGED <<rmVars, provVars, nodeFileChangeCommentThreads, nodeCommentController,
                nodeCalls, nodeRefreshes>>

\* How many comments the node's handlers have created or asked for.
NodeMutations ==
    Cardinality(nodeHandlers)
        + Cardinality({tk \in (DOMAIN nodeThreads) \X (1..(Cardinality(Ids) + MaxNodeMutations)) :
                          /\ tk[2] <= Len(nodeThreads[tk[1]].comments)
                          /\ nodeThreads[tk[1]].comments[tk[2]].body = InputText})

\* The review provider and the node share no field: a behaviour of SpecCreate works
\* with one of the two, the one its first step chooses.

\* getChildren called once: the node is expanded and not refreshed afterwards.
getChildrenOnce ==
    /\ nodeRefreshes = 0
    /\ threads = <<>>
    /\ getChildren

\* createEmptyCommentThread on a document of the checked-out pull request.
createEmptyCommentThreadInReview(uri) ==
    /\ nodeRefreshes = 0
    /\ createEmptyCommentThread(uri)

\* createNewCommentWidgetCallback after authenticate: a thread without id and comments
\* on the document, in no map.
createNewCommentWidgetCallback(uri) ==
    /\ nodeCommentController
    /\ Len(nodeThreads) < MaxNodeThreads
    /\ Cardinality({t \in DOMAIN nodeThreads : nodeThreads[t].threadId = ""}) < MaxEmptyThreads
    /\ nodeThreads' = NewThreads(nodeThreads, <<[threadId |-> "", resource |-> uri,
                                                 comments |-> <<>>]>>)
    /\ nodeOp' = NodeOp("createNewCommentWidgetCallback")
    /\ UNCHANGED <<nodeFileChanges, nodeHandlers>>
    /\ NodeHandlerFrame

\* PRNode.createOrReplyComment after authenticate, up to the await of createCommentReply
\* or, in updateCommentThreadRoot, of createComment.  updateCommentThreadRoot returns
\* when the node has no file change of the document's file, and its catch block logs
\* the error of a negative position.
nodeCreateOrReplyComment(t) ==
    /\ nodeThreads[t].disposed = 0
    /\ NodeMutations < MaxNodeMutations
    /\ LET id == Cardinality(Ids) + NodeMutations + 1
           fileName == nodeThreads[t].resource.path
           fileChange == SelectSeq(nodeFileChanges, LAMBDA fc : fc.fileName = fileName)
       IN  IF nodeThreads[t].comments # <<>>
           THEN /\ nodeHandlers' = nodeHandlers \cup
                       {NodeHandler("createCommentReply", t, fileName,
                                    CreatedComment(id, fileName, 0))}
                /\ nodeOp' = NodeOp("createOrReplyComment")
           ELSE \E position \in Positions \cup {-1} :
                    IF fileChange = <<>> \/ PositionRejected(position)
                    THEN /\ UNCHANGED nodeHandlers
                         /\ nodeOp' = [NodeOp("createOrReplyComment") EXCEPT
                                          !.threw = fileChange # <<>>]
                    ELSE /\ nodeHandlers' = nodeHandlers \cup
                                {NodeHandler("createComment", t, fileName,
                                             CreatedComment(id, fileName, position))}
                         /\ nodeOp' = NodeOp("createOrReplyComment")
    /\ UNCHANGED <<nodeFileChanges, nodeThreads>>
    /\ NodeHandlerFrame

\* PRNode.updateCommentThreadRoot after createComment: the comment joins the file change
\* and becomes the thread's only comment; behind inDraftMode only the commands are set.
nodeCommentCreated(h) ==
    /\ h.kind = "createComment"
    /\ nodeFileChanges' = [k \in DOMAIN nodeFileChanges |->
                              IF nodeFileChanges[k].fileName = h.fileName
                              THEN [nodeFileChanges[k] EXCEPT
                                       !.comments = Append(@, h.rawComment)]
                              ELSE nodeFileChanges[k]]
    /\ nodeThreads' = [nodeThreads EXCEPT ![h.thread].comments =
                           <<convertToVSCodeComment(h.rawComment)>>]
    /\ nodeHandlers' = nodeHandlers \ {h}
    /\ nodeOp' = NodeOp("updateCommentThreadRoot")
    /\ NodeHandlerFrame

\* PRNode.createOrReplyComment after createCommentReply: the reply joins the thread.
nodeCommentReplied(h) ==
    /\ h.kind = "createCommentReply"
    /\ nodeThreads' = [nodeThreads EXCEPT ![h.thread].comments =
                           Append(@, convertToVSCodeComment(h.rawComment))]
    /\ nodeHandlers' = nodeHandlers \ {h}
    /\ nodeOp' = NodeOp("createCommentReplied")
    /\ UNCHANGED nodeFileChanges
    /\ NodeHandlerFrame

\* The server call of a handler of the node rejects: nothing else of the handler runs.
nodeRemoteCallRejected(h) ==
    /\ nodeHandlers' = nodeHandlers \ {h}
    /\ nodeOp' = [NodeOp("remoteCallRejected") EXCEPT !.threw = TRUE]
    /\ UNCHANGED <<nodeFileChanges, nodeThreads>>
    /\ NodeHandlerFrame

\* New threads and their first comments, in the review provider and in the node of a
\* pull request that is expanded once.
NextCreate ==
    \/ \E uri \in Documents : createEmptyCommentThreadInReview(uri)
    \/ \E t \in DOMAIN threads : createOrReplyComment(t)
    \/ \E h \in handlers : createCommentReplied(h)
    \/ \E h \in handlers : updateCommentThreadRootCreated(h)
    \/ \E h \in handlers : updateCommentThreadRoot(h)
    \/ \E h \in handlers : remoteCallRejected(h)
    \/ getChildrenOnce
    \/ \E call \in nodeCalls : getChildrenFetched(call)
    \/ \E call \in nodeCalls : getChildrenInDraftMode(call)
    \/ \E uri \in PRDocuments : createNewCommentWidgetCallback(uri)
    \/ \E t \in DOMAIN nodeThreads : nodeCreateOrReplyComment(t)
    \/ \E h \in nodeHandlers : nodeCommentCreated(h)
    \/ \E h \in nodeHandlers : nodeCommentReplied(h)
    \/ \E h \in nodeHandlers : nodeRemoteCallRejected(h)

SpecCreate == InitViews /\ [][NextCreate]_vars

\* C21: no createComment call is ever under way with a negative position, in the review
\* provider or in the node, and a createOrReplyComment that fails on a new thread leaves
\* the threads, the file changes' comments and the flat comment list as they were.
C21_NoCommentCreatedAtNegativePosition ==
    [][/\ \A h \in handlers' :
              h.kind \in {"createComment", "inDraftMode"} => h.rawComment.position >= 0
       /\ \A h \in nodeHandlers' :
              h.kind = "createComment" => h.rawComment.position >= 0
       /\ lastOp'.name = "createOrReplyComment" /\ lastOp'.threw /\ mutations' # mutations
              => UNCHANGED <<threads, fileChanges, comments, handlers>>
       /\ nodeOp'.name = "createOrReplyComment" /\ nodeOp'.threw
              => UNCHANGED <<nodeThreads, nodeFileChanges, nodeHandlers>>]_vars

\* createOrReplyComment has just failed on a new thread of a file of the pull request:
\* the position of the thread's line is negative.
C21_NegativePositionRejected ==
    /\ lastOp.name = "createOrReplyComment"
    /\ lastOp.threw
    /\ ~lastOp.rejected
    /\ handlers = {}
    /\ \E t \in DOMAIN threads :
           /\ threads[t].threadId = ""
           /\ threads[t].disposed = 0
           /\ findMatchedFileByUri(threads[t].resource) # 0

\* ------------------------------------- ReviewManager.getLocalChangeNodes

\* The bound on the changed files of a pull request, and their names.
MaxChanges == 3
ChangedFiles == <<"a", "b", "c">>

\* The content changes parseDiff hands over: an InMemFileChange carries its diff hunks
\* and an isPartial flag, a SlimFileChange carries neither.
ContentChangeLists ==
    LET kinds == {[inMem |-> TRUE, isPartial |-> TRUE], [inMem |-> TRUE, isPartial |-> FALSE],
                  [inMem |-> FALSE, isPartial |-> FALSE]}
    IN  {[k \in DOMAIN f |-> [fileName |-> ChangedFiles[k], inMem |-> f[k].inMem,
                              isPartial |-> f[k].isPartial]] :
            f \in UNION {[1..n -> kinds] : n \in 0..MaxChanges}}

\* new GitFileChangeNode(..., change.fileName, ..., isPartial, diffHunks, ...)
ChangeNode(change, isPartial, diffHunks) ==
    [fileName |-> change.fileName, isPartial |-> isPartial, diffHunks |-> diffHunks]

\* The loop of getLocalChangeNodes from the k-th change on, as far as it runs without
\* suspending: up to a SlimFileChange, whose diffBetween it awaits, or to the end.
RECURSIVE NodesUpToAwait(_, _)
NodesUpToAwait(nodes, k) ==
    IF k > Len(contentChanges) \/ ~contentChanges[k].inMem THEN nodes
    ELSE NodesUpToAwait(Append(nodes, ChangeNode(contentChanges[k],
                                                 contentChanges[k].isPartial, "hunks")),
                        k + 1)

ChangesFrame ==
    /\ UNCHANGED <<provVars, nodeVars, projected, validated, pollVars, cmdVars, contentChanges>>
    /\ UNCHANGED <<repo, prNumber, activePullRequest, lastCommitSha, switchingToReviewMode,
                   validateStatusInProgress, promises, switchPc, rmComments,
                   providerRegistered, updateMessageShown, validateFound>>

\* getLocalChangeNodes up to its first await, or to its return.
getLocalChangeNodes ==
    /\ changePc = "idle"
    /\ changeNodes' = NodesUpToAwait(<<>>, 1)
    /\ changePc' = IF Len(changeNodes') = Len(contentChanges) THEN "done" ELSE "diffBetween"
    /\ UNCHANGED diffFailures
    /\ ChangesFrame

\* getLocalChangeNodes resumed after `await this._repository.diffBetween(...)`: either
\* the patch is parsed, or diffBetween rejected or parsePatch threw and the catch block
\* logged it, with `isPartial` false and `diffHunks` empty as they were declared.
getLocalChangeNodesDiffed ==
    /\ changePc = "diffBetween"
    /\ LET k == Len(changeNodes) + 1
       IN  \E parsed \in BOOLEAN :
              /\ changeNodes' =
                     NodesUpToAwait(Append(changeNodes,
                                           ChangeNode(contentChanges[k], FALSE,
                                                      IF parsed THEN "hunks" ELSE "none")),
                                    k + 1)
              /\ diffFailures' = IF parsed THEN diffFailures ELSE diffFailures \cup {k}
    /\ changePc' = IF Len(changeNodes') = Len(contentChanges) THEN "done" ELSE "diffBetween"
    /\ ChangesFrame

NextChanges ==
    \/ getLocalChangeNodes
    \/ getLocalChangeNodesDiffed

InitChanges ==
    /\ InitReviewManager
    /\ projected = NotProjected
    /\ validated = NotValidated
    /\ commands = {}
    /\ cmdOp = CmdOp("none", FALSE)
    /\ InitProvider([ids |-> {}, files |-> {}])
    /\ contentChanges \in ContentChangeLists
    /\ changeNodes = <<>>
    /\ changePc = "idle"
    /\ diffFailures = {}

SpecChanges == InitChanges /\ [][NextChanges]_vars

\* C22: when getLocalChangeNodes returns there is a node for every changed file, in the
\* order of the changes, and the node of every file whose diff could not be computed or
\* parsed is marked partial.
C22_FailedDiffMarksNodePartial ==
    changePc = "done" =>
        /\ Len(changeNodes) = Len(contentChanges)
        /\ \A k \in 1..Len(changeNodes) :
               /\ changeNodes[k].fileName = contentChanges[k].fileName
               /\ k \in diffFailures => changeNodes[k].isPartial

\* ------------------------------------- commands.ts: pr.deleteLocalBranch, pr.merge, pr.close

\* The bound on the command handlers suspended at the same time.
MaxCommands == 2

\* A guard of ensurePR that never throws.
ensurePRNeverThrows(pr) == FALSE

\* ensurePR throws, after showing its error message: the command was given no pull
\* request (0) and there is no active pull request.
ensurePRThrows(pr) == pr = 0 /\ activePullRequest = 0

\* ensurePR, when it returns: the pull request given, or else the active one.
ensurePR(pr) == IF pr = 0 THEN activePullRequest ELSE pr

\* A command handler suspended at `pc`, with its pull request and close message.
Command(name, pullRequest, pc, message) ==
    [name |-> name, pullRequest |-> pullRequest, pc |-> pc, message |-> message]

CmdFrame ==
    /\ UNCHANGED <<provVars, nodeVars, projected, validated, pollVars, loadVars>>
    /\ UNCHANGED <<repo, prNumber, activePullRequest, lastCommitSha, switchingToReviewMode,
                   validateStatusInProgress, promises, switchPc, rmComments,
                   providerRegistered, updateMessageShown>>
    /\ validateFound' = "nothing"

\* A segment of the command `c` that calls no operation and shows or not an error.
CmdSegment(c, pc, errorShown, invoked) ==
    /\ commands' = IF pc = "done" THEN commands \ {c}
                   ELSE (commands \ {c}) \cup {[c EXCEPT !.pc = pc]}
    /\ cmdOp' = [CmdOp(c.name, TRUE) EXCEPT !.errorShown = errorShown, !.invoked = invoked]
    /\ CmdFrame

\* The first segment of a command: ensurePR, then `start` when it returned.
CmdStart(name, pr, message, pc, invoked) ==
    /\ Cardinality(commands) < MaxCommands
    /\ IF ensurePRThrows(pr)
       THEN /\ cmdOp' = [CmdOp(name, pr # 0) EXCEPT !.errorShown = TRUE, !.threw = TRUE]
            /\ UNCHANGED commands
       ELSE /\ cmdOp' = [CmdOp(name, pr # 0) EXCEPT !.invoked = invoked]
            /\ commands' = commands \cup {Command(name, ensurePR(pr), pc, message)}
    /\ CmdFrame

\* pr.deleteLocalBranch up to its await of deleteLocalPullRequest.
deleteLocalBranch(pr) ==
    CmdStart("pr.deleteLocalBranch", pr, FALSE, "deleteLocalPullRequest",
             "deleteLocalPullRequest")

\* A command that forces the deletion whenever the first one failed, without asking.
ForceAfterAnyFailure(outcome) ==
    IF outcome = "deleted" THEN "done" ELSE "deleteLocalPullRequestForce"

\* Where pr.deleteLocalBranch goes after its first, unforced deletion.
AfterDeleteLocalPullRequest(outcome) ==
    IF outcome = "BranchNotFullyMerged" THEN "showErrorMessage" ELSE "done"

\* pr.deleteLocalBranch after deleteLocalPullRequest: done, or the branch is not fully
\* merged and the user is asked, or another error is shown.
deleteLocalBranchDeleted(c) ==
    /\ c.pc = "deleteLocalPullRequest"
    /\ \E outcome \in {"deleted", "BranchNotFullyMerged", "error"} :
          CmdSegment(c, AfterDeleteLocalPullRequest(outcome), outcome # "deleted", "none")

\* pr.deleteLocalBranch after the question: the forced deletion, unless declined.
deleteLocalBranchAnswered(c) ==
    /\ c.name = "pr.deleteLocalBranch"
    /\ c.pc = "showErrorMessage"
    /\ \E force \in BOOLEAN :
          IF force THEN CmdSegment(c, "deleteLocalPullRequestForce", FALSE,
                                   "deleteLocalPullRequest")
          ELSE CmdSegment(c, "done", FALSE, "none")

\* pr.deleteLocalBranch after the forced deletion.
deleteLocalBranchForced(c) ==
    /\ c.pc = "deleteLocalPullRequestForce"
    /\ \E failed \in BOOLEAN : CmdSegment(c, "done", failed, "none")

\* pr.merge up to its modal question.
merge(pr) ==
    CmdStart("pr.merge", pr, FALSE, "showWarningMessage", "none")

\* pr.merge after the question.
mergeAnswered(c) ==
    /\ c.name = "pr.merge"
    /\ c.pc = "showWarningMessage"
    /\ \E yes \in BOOLEAN :
          IF yes THEN CmdSegment(c, "mergePullRequest", FALSE, "mergePullRequest")
          ELSE CmdSegment(c, "done", FALSE, "none")

\* pr.merge after mergePullRequest.
mergeMerged(c) ==
    /\ c.pc = "mergePullRequest"
    /\ \E failed \in BOOLEAN : CmdSegment(c, "done", failed, "none")

\* pr.close up to its question.
close(pr, message) ==
    CmdStart("pr.close", pr, message, "showWarningMessage", "none")

\* The last segment of pr.close, in which _onDidUpdatePR.fire is called `fires` times.
closeDone(c, errorShown, fires) ==
    /\ commands' = commands \ {c}
    /\ cmdOp' = [CmdOp(c.name, TRUE) EXCEPT !.errorShown = errorShown, !.fired = fires]
    /\ CmdFrame

\* The catch block of pr.close shows the error and fires; nothing returns there, so
\* the statement after the `if` fires again.
FiredAfterCatch == 2

\* pr.close after the question: any answer but Yes goes to the fire after the `if`;
\* after Yes, the comment first when a message was given.
closeAnswered(c) ==
    /\ c.name = "pr.close"
    /\ c.pc = "showWarningMessage"
    /\ \E yes \in BOOLEAN :
          IF ~yes THEN closeDone(c, FALSE, 1)
          ELSE IF c.message THEN CmdSegment(c, "createIssueComment", FALSE, "createIssueComment")
          ELSE CmdSegment(c, "closePullRequest", FALSE, "closePullRequest")

\* pr.close after createIssueComment.
closeCommented(c) ==
    /\ c.pc = "createIssueComment"
    /\ \E failed \in BOOLEAN :
          IF failed THEN closeDone(c, TRUE, FiredAfterCatch)
          ELSE CmdSegment(c, "closePullRequest", FALSE, "closePullRequest")

\* pr.close after closePullRequest: on success it fires with the new pull request
\* and returns from inside the try block.
closeClosed(c) ==
    /\ c.pc = "closePullRequest"
    /\ \E failed \in BOOLEAN :
          IF failed THEN closeDone(c, TRUE, FiredAfterCatch)
          ELSE closeDone(c, FALSE, 1)

\* The three commands, from the command palette (no argument) or from the tree, while
\* the first validateState of the session loads the pull request of the branch.
NextCommands ==
    \/ \E p \in DOMAIN promises : ValidateAfterUpdateRepositories(p)
    \/ \E p \in DOMAIN promises : ValidateAfterGetMetadata(p)
    \/ \E p \in DOMAIN promises : ValidateAfterResolvePullRequest(p)
    \/ \E p \in DOMAIN promises : ValidateAfterGetPullRequestData(p)
    \/ \E p \in DOMAIN promises : ValidateAfterShowPullRequestFileChanges(p)
    \/ \E p \in DOMAIN promises : ValidateAfterRegisterCommentProvider(p)
    \/ \E pr \in {0} \cup PullRequests : deleteLocalBranch(pr)
    \/ \E c \in commands : deleteLocalBranchDeleted(c)
    \/ \E c \in commands : deleteLocalBranchAnswered(c)
    \/ \E c \in commands : deleteLocalBranchForced(c)
    \/ \E pr \in {0} \cup PullRequests : merge(pr)
    \/ \E c \in commands : mergeAnswered(c)
    \/ \E c \in commands : mergeMerged(c)
    \/ \E pr \in {0} \cup PullRequests : \E message \in BOOLEAN : close(pr, message)
    \/ \E c \in commands : closeAnswered(c)
    \/ \E c \in commands : closeCommented(c)
    \/ \E c \in commands : closeClosed(c)

SpecCommands == InitRM /\ [][NextCommands]_vars

\* C23: a segment in which pr.deleteLocalBranch, pr.merge or pr.close starts without a
\* pull request while there is no active pull request shows an error message, calls no
\* operation of the PullRequestManager and leaves no handler behind that could.
C23_NoPullRequestNoOperation ==
    [][(/\ cmdOp' # cmdOp
        /\ cmdOp'.name \in {"pr.deleteLocalBranch", "pr.merge", "pr.close"}
        /\ ~cmdOp'.hasArgument
        /\ activePullRequest = 0)
          => /\ cmdOp'.errorShown
             /\ cmdOp'.threw
             /\ cmdOp'.invoked = "none"
             /\ commands' = commands]_vars

\* pr.merge has just been run from the command palette without an active pull request.
C23_MergeRefused ==
    /\ cmdOp.name = "pr.merge"
    /\ ~cmdOp.hasArgument
    /\ cmdOp.threw
    /\ activePullRequest = 0

\* C24: when the checkout of ReviewManager.switch fails, at either of its two awaits
\* and whatever the git error code, an error message is shown, no further checkout is
\* started and the call ends without calling fullfillPullRequestMissingInfo.
C24_FailedCheckoutEndsSwitch ==
    [][(/\ switchPc \in {"checkout", "fetchAndCheckout"}
        /\ cmdOp'.name = "switch"
        /\ cmdOp'.threw)
          => /\ cmdOp'.errorShown
             /\ cmdOp'.invoked = cmdOp.invoked
             /\ switchPc' = "idle"]_vars

\* A switch has ended on a checkout that failed in fetchAndCheckout.
C24_FetchAndCheckoutFailed ==
    /\ cmdOp.name = "switch"
    /\ cmdOp.threw
    /\ cmdOp.errorShown
    /\ cmdOp.invoked = "fetchAndCheckout"
    /\ switchPc = "idle"

\* ------------------------------------- the review documents of outdated commits

NextOutdatedDocuments ==
    \/ initializeWorkspaceCommentThreads
    \/ \E call \in inflight : initializeWorkspaceFile(call)
    \/ \E uri \in ReviewDocuments : initializeCommentThreadsForReviewDocument(uri)
    \/ \E call \in inflight : provideReviewDocumentThreads(call)

SpecOutdatedDocuments == InitOutdated /\ [][NextOutdatedDocuments]_vars

\* The originalPosition groups of the comments an outdated review document shows whose
\* last diff line is a line of the side of the document.
ResolvedOutdatedSections(uri) ==
    LET matchedObsoleteFile == findMatchedFileChangeForReviewDiffView(obsoleteFileChanges, uri)
        obsoleteComments ==
            IF matchedObsoleteFile = 0
            THEN SelectSeq(comments, LAMBDA c : /\ c.path = uri.path
                                                /\ c.originalCommitId \o "^" = uri.commit)
            ELSE fileChanges[matchedObsoleteFile].comments
        lineNumber(sec) == LET diffLine == getLastDiffLine(sec[1])
                           IN  IF uri.base THEN diffLine.oldLineNumber
                               ELSE IF diffLine.oldLineNumber > 0 THEN -1
                               ELSE diffLine.newLineNumber
    IN  SelectSeq(groupBy(obsoleteComments, "originalPosition"),
                  LAMBDA sec : lineNumber(sec) >= 0)

\* C26: the entry of an outdated review document holds one thread for every
\* originalPosition group whose last diff line resolves on the side of the document,
\* each with the id of the first comment of its group.
C26_OneThreadPerResolvedGroup ==
    \A uri \in ReviewDocuments :
        (/\ UriString(uri) \in DOMAIN reviewDocumentCommentThreads
         /\ findMatchedFileChangeForReviewDiffView(localFileChanges, uri) = 0)
            => LET entry == reviewDocumentCommentThreads[UriString(uri)]
                   sections == ResolvedOutdatedSections(uri)
               IN  /\ Len(entry) = Len(sections)
                   /\ \A k \in 1..Len(sections) :
                          threads[entry[k]].threadId = ToString(sections[k][1].id)

\* ------------------------------------- the thread projections on their own

\* The bound on the comments of one projected file.
MaxProjected == 3

\* getZeroBased: the editor line of a one-based line; a sentinel stays what it is.
getZeroBased(n) == IF n > 0 THEN n - 1 ELSE n

\* getDiffLineByPosition: the index of the diff line at a position, 0 when there is none.
getDiffLineByPosition(hunks, position) ==
    LET at == {k \in 1..Len(hunks) : hunks[k].positionInHunk = position}
    IN  IF at = {} THEN 0 ELSE CHOOSE k \in at : TRUE

\* mapOldPositionToNew: where a line of the head commit lands in the working copy, for
\* a content diff that deletes the lines `contentDiff`; -1 when the line is deleted.
mapOldPositionToNew(contentDiff, line) ==
    IF line \in contentDiff THEN -1
    ELSE line - Cardinality({d \in contentDiff : d < line})

\* mapCommentsToHead: absolutePosition (<<>> = undefined) set of every comment whose
\* position is a line of the hunks.
mapCommentsToHead(hunks, contentDiff, cs) ==
    [k \in 1..Len(cs) |->
        LET diffLine == getDiffLineByPosition(hunks, cs[k].position)
        IN  IF diffLine = 0 THEN cs[k]
            ELSE [cs[k] EXCEPT !.absolutePosition =
                     <<mapOldPositionToNew(contentDiff, hunks[diffLine].newLineNumber)>>]]

\* `comment.absolutePosition || 0`
AbsolutePositionOrZero(comment) ==
    IF comment.absolutePosition = <<>> THEN 0 ELSE comment.absolutePosition[1]

\* The comment a thread descriptor takes its threadId of.
FirstComment(cs, thread) ==
    cs[CHOOSE k \in 1..Len(cs) : ToString(cs[k].id) = thread.threadId]

\* The inputs of a projection: the comments of one file in any order the server may
\* return them in, the hunks of the file change (none when its diff failed) and the
\* lines of the head commit the working copy deletes.
ProjectionInputs ==
    {[NotProjected EXCEPT !.hunks = hunks, !.contentDiff = contentDiff,
                          !.input = [k \in DOMAIN order |->
                                        [absolutePosition |-> <<>>] @@ Comment(order[k], 0)]] :
        hunks \in {DiffLines, <<>>},
        contentDiff \in SUBSET {11, 12},
        order \in {f \in UNION {[1..n -> {1, 2, 3}] : n \in 0..MaxProjected} :
                      \A j, k \in DOMAIN f : j # k => f[j] # f[k]}}

ProjectionFrame ==
    /\ UNCHANGED <<provVars, nodeVars, pollVars, loadVars, cmdVars, validated>>
    /\ UNCHANGED <<repo, prNumber, activePullRequest, lastCommitSha, switchingToReviewMode,
                   validateStatusInProgress, promises, switchPc, rmComments,
                   providerRegistered, updateMessageShown, validateFound>>

\* The projection of the workspace view, as the callback of
\* initializeWorkspaceCommentThreads runs it: every group becomes a thread, anchored at
\* the zero-based absolutePosition of its first comment, or at 0 when that is unset.
projectWorkspace ==
    /\ projected.view = "none"
    /\ LET matchingComments == mapCommentsToHead(projected.hunks, projected.contentDiff,
                                                 projected.input)
           descs == workspaceLocalCommentsToCommentThreads(matchingComments)
       IN  projected' =
               [projected EXCEPT
                   !.view = "workspace",
                   !.input = matchingComments,
                   !.threads = [k \in 1..Len(descs) |->
                       [threadId |-> descs[k].threadId,
                        comments |-> descs[k].comments,
                        line |-> getZeroBased(AbsolutePositionOrZero(
                                     FirstComment(matchingComments, descs[k])))]]]
    /\ ProjectionFrame

\* provideDocumentComments for one side of the document of a file whose diff is known.
projectDocument(isBase) ==
    /\ projected.view = "none"
    /\ projected.hunks = DiffLines
    /\ LET descs == provideDocumentComments(PRUri("a", isBase), isBase, projected.input)
       IN  projected' =
               [projected EXCEPT
                   !.view = "pr",
                   !.isBase = isBase,
                   !.threads = [k \in 1..Len(descs) |->
                       [threadId |-> descs[k].threadId,
                        comments |-> descs[k].comments,
                        line |-> getZeroBased(getAbsolutePosition(
                                     FirstComment(projected.input, descs[k]), isBase))]]]
    /\ ProjectionFrame

\* provideCommentInfoForReviewUri for a local file change: absolutePosition set of every
\* comment, the comments without a positive one filtered out before the projection.
projectReviewDocument(isBase) ==
    /\ projected.view = "none"
    /\ projected.hunks = DiffLines
    /\ LET matchingComments ==
               [k \in 1..Len(projected.input) |->
                   [projected.input[k] EXCEPT !.absolutePosition =
                       <<getAbsolutePosition(projected.input[k], isBase)>>]]
           kept == SelectSeq(matchingComments, LAMBDA c : c.absolutePosition[1] > 0)
           descs == workspaceLocalCommentsToCommentThreads(kept)
       IN  projected' =
               [projected EXCEPT
                   !.view = "review",
                   !.isBase = isBase,
                   !.input = matchingComments,
                   !.threads = [k \in 1..Len(descs) |->
                       [threadId |-> descs[k].threadId,
                        comments |-> descs[k].comments,
                        line |-> getZeroBased(AbsolutePositionOrZero(
                                     FirstComment(matchingComments, descs[k])))]]]
    /\ ProjectionFrame

NextProjection ==
    \/ projectWorkspace
    \/ \E isBase \in BOOLEAN : projectDocument(isBase)
    \/ \E isBase \in BOOLEAN : projectReviewDocument(isBase)

InitProjection ==
    /\ InitReviewManager
    /\ commands = {}
    /\ cmdOp = CmdOp("none", FALSE)
    /\ InitProvider([ids |-> {}, files |-> {}])
    /\ contentChanges = <<>>
    /\ changeNodes = <<>>
    /\ changePc = "idle"
    /\ diffFailures = {}
    /\ projected \in ProjectionInputs
    /\ validated = NotValidated

SpecProjection == InitProjection /\ [][NextProjection]_vars

\* The position of a comment resolved in the view projected: its absolutePosition is
\* set and positive, or, in a document of the pull request, its line exists on the side.
PositionResolved(comment) ==
    IF projected.view = "pr" THEN getAbsolutePosition(comment, projected.isBase) > 0
    ELSE comment.absolutePosition # <<>> /\ comment.absolutePosition[1] > 0

\* C25: every thread of a projection is the thread of a group whose position resolved,
\* anchored at a line that is not negative: a group whose absolutePosition is undefined,
\* zero or a negative sentinel has no thread.
C25_UnresolvedGroupsExcluded ==
    \A k \in 1..Len(projected.threads) :
        /\ projected.threads[k].line >= 0
        /\ PositionResolved(FirstComment(projected.input, projected.threads[k]))

\* The comments of the input of the projection at one position, in input order.
GroupAt(position) ==
    SelectSeq(projected.input, LAMBDA c : c.position = position)

\* The zero-based line the position of a comment resolved to in the view projected.
ResolvedLine(comment) ==
    IF projected.view = "pr"
    THEN getZeroBased(getAbsolutePosition(comment, projected.isBase))
    ELSE getZeroBased(comment.absolutePosition[1])

\* C28: a projection partitions its input by position.  For every group whose anchor
\* resolves there is exactly one thread with the id of the first comment of the group,
\* it holds the comments of the group in input order and is anchored at the line of the
\* first comment, and every comment of the group is in exactly one thread.
C28_ProjectionPartitionsInput ==
    projected.view # "none" =>
        \A c \in Range(projected.input) :
            LET group == GroupAt(c.position)
                ofGroup == {k \in 1..Len(projected.threads) :
                               projected.threads[k].threadId = ToString(group[1].id)}
            IN  PositionResolved(group[1]) =>
                    /\ Cardinality(ofGroup) = 1
                    /\ \A k \in ofGroup :
                           /\ projected.threads[k].comments =
                                  [j \in 1..Len(group) |-> convertToVSCodeComment(group[j])]
                           /\ projected.threads[k].line = ResolvedLine(group[1])
                    /\ Cardinality({ki \in (1..Len(projected.threads)) \X (1..MaxProjected) :
                           /\ ki[2] <= Len(projected.threads[ki[1]].comments)
                           /\ projected.threads[ki[1]].comments[ki[2]].commentId
                                  = ToString(c.id)}) = 1

\* The document of the head side projected of comments the server returned in the
\* order 2, 3, 1: the thread of 2 and 1 before the thread of 3.
C28_TwoGroupsInterleaved ==
    /\ projected.view = "pr"
    /\ ~projected.isBase
    /\ Len(projected.input) = 3
    /\ projected.input[1].id = 2
    /\ projected.input[2].id = 3
    /\ Len(projected.threads) = 2
    /\ projected.threads[1].threadId = "2"
    /\ Len(projected.threads[1].comments) = 2

\* C27: the segment addReaction or deleteReaction completes with leaves the reactions
\* the server answered with on the comment of the file change, and on that comment in
\* every live thread of a view that holds it.
C27_ReactionShownInThread ==
    [][lastOp'.name \in {"addReaction", "deleteReaction"} /\ lastOp'.mutated =>
          \A h \in handlers \ handlers' :
              LET reactions == parseGraphQLReaction(h.kind = "addCommentReaction")
                  shown == convertToVSCodeComment(
                               [Comment(0, 0) EXCEPT !.reactions = reactions]).commentReactions
              IN  /\ \A k \in 1..Len(fileChanges'[h.matchedFile].comments) :
                         ToString(fileChanges'[h.matchedFile].comments[k].id) = h.commentId
                             => fileChanges'[h.matchedFile].comments[k].reactions = reactions
                  /\ \A t \in ViewThreads :
                         threads'[t].disposed = 0 =>
                             \A k \in 1..Len(threads'[t].comments) :
                                 threads'[t].comments[k].commentId = h.commentId
                                     => threads'[t].comments[k].commentReactions = shown]_vars

\* ------------------------------------- PRNode: refreshes that bring edits and reactions

\* What the server may return of the comments at position 2 of file a, a line of both
\* sides: comment 3 with either body and one of five reaction lists, or not, and a reply
\* to it made since, with either body, or not.
ReactionLists ==
    {<<>>,
     <<[label |-> "+1", viewerHasReacted |-> TRUE]>>,
     <<[label |-> "+1", viewerHasReacted |-> FALSE]>>,
     <<[label |-> "-1", viewerHasReacted |-> TRUE]>>,
     <<[label |-> "+1", viewerHasReacted |-> TRUE], [label |-> "-1", viewerHasReacted |-> TRUE]>>}

EditedFetches ==
    {[fileName |-> "a", sha |-> "head", obsolete |-> FALSE,
      comments |-> (IF with3 THEN <<[Comment(3, body3) EXCEPT !.reactions = reactions]>>
                    ELSE <<>>)
                       \o (IF withReply
                           THEN <<[CreatedComment(Cardinality(Ids) + 1, "a", 2)
                                      EXCEPT !.body = bodyOfReply]>>
                           ELSE <<>>)] :
        with3 \in BOOLEAN, body3 \in {0, 1}, reactions \in ReactionLists,
        withReply \in BOOLEAN, bodyOfReply \in {0, 1}}

\* getChildren once comments with edits and reactions are fetched.
getChildrenFetchedEdited(call) ==
    /\ call.pc = "getPullRequestComments"
    /\ \E fileChange \in EditedFetches :
           nodeCalls' = (nodeCalls \ {call}) \cup
               {[call EXCEPT !.pc = "inDraftMode", !.fileChanges = <<fileChange>>]}
    /\ nodeOp' = NodeOp("getChildrenFetched")
    /\ UNCHANGED <<nodeFileChanges, nodeThreads, nodeFileChangeCommentThreads,
                   nodeCommentController, nodeRefreshes>>
    /\ NodeFrame

\* Two refreshes at most, one after the other.
getChildrenInTurn ==
    /\ nodeRefreshes < MaxRefreshes - 1
    /\ nodeCalls = {}
    /\ getChildren

NextRefresh ==
    \/ getChildrenInTurn
    \/ \E call \in nodeCalls : getChildrenFetchedEdited(call)
    \/ \E call \in nodeCalls : getChildrenInDraftMode(call)
    \/ \E call \in nodeCalls : updateComments(call)

SpecRefresh == InitPRNode /\ [][NextRefresh]_vars

\* The reaction lists of two comments differ: in length, or at some index in label or
\* in the has-reacted flag.
ReactionsDiffer(old, new) ==
    \/ Len(old) # Len(new)
    \/ \E i \in 1..Len(old) : old[i].label # new[i].label \/ old[i].hasReacted # new[i].hasReacted

\* A thread of both projections counts as changed.
ThreadChanged(oldComments, newComments) ==
    \/ Len(oldComments) # Len(newComments)
    \/ \E k \in 1..Len(oldComments) :
          LET same == {j \in 1..Len(newComments) :
                          newComments[j].commentId = oldComments[k].commentId}
          IN  \/ Cardinality(same) # 1
              \/ \E j \in same :
                    \/ newComments[j].body # oldComments[k].body
                    \/ ReactionsDiffer(oldComments[k].commentReactions,
                                       newComments[j].commentReactions)

C30_NumberAndActivePullRequestAgree ==
    [][\A p \in DOMAIN promises :
           promises[p].status = "running" /\ promises'[p].status = "resolved"
               => prNumber' = activePullRequest']_vars

\* C31: the promise of an updateState() request is never rejected before the
\* validateState execution it stands for has started: a rejected promise stays
\* rejected, so a request whose promise is rejected as chained, or on creation, leads to
\* no execution of validateState at all.
C31_RequestLeadsToValidateState ==
    [][\A n \in DOMAIN promises' :
           promises'[n].status = "rejected"
               => /\ n \in DOMAIN promises
                  /\ promises[n].status \in {"running", "rejected"}]_vars

\* C32: the poll loop is never dead.  A timer is armed only by the callback of a timer,
\* after its updateComments, so a timer can be armed after a tick only while a timer is
\* pending or the updateComments of a tick is in flight.
C32_PollLoopAlive ==
    pollTimers > 0 \/ pollCalls # <<>>

\* C33: a segment that leaves switchingToReviewMode true makes no validateState promise,
\* and the segment a call of switch ends with, on the failure of the checkout and in
\* the finally block alike, leaves the flag false and has made exactly one updateState
\* request, whose promise is the one now in progress.
C33_SwitchSuppressesThenRequests ==
    [][/\ switchingToReviewMode' => Len(promises') = Len(promises)
       /\ (switchPc # "idle" /\ switchPc' = "idle")
             => /\ ~switchingToReviewMode'
                /\ Len(promises') = Len(promises) + 1
                /\ validateStatusInProgress' = Len(promises')]_vars

\* A switch has gone through its finally block after a repository change was ignored
\* while it was switching: only the request of the setter has made a promise.
C33_SwitchEndedWithOneRequest ==
    /\ cmdOp.name = "switch"
    /\ cmdOp.invoked = "fullfillPullRequestMissingInfo"
    /\ switchPc = "idle"
    /\ ~switchingToReviewMode
    /\ Len(promises) = 2
    /\ repo.head

\* ------------------------------------- comments created between refreshes

\* No call of the provider is suspended: the refreshes of the review manager and the
\* commands of the user are taken one at a time.
ProviderIdle == initialized /\ inflight = {} /\ handlers = {}

\* The provider under refreshes of the review manager and the creation of comments.
NextFetch ==
    \/ initializeWorkspaceCommentThreads
    \/ \E call \in inflight : initializeWorkspaceFile(call)
    \/ \E sn \in Snapshots : ProviderIdle /\ update(sn)
    \/ \E call \in inflight : resumeUpdateFileChangeCommentThreads(call)
    \/ \E uri \in Documents : ProviderIdle /\ createEmptyCommentThread(uri)
    \/ \E t \in DOMAIN threads : ProviderIdle /\ createOrReplyComment(t)
    \/ \E h \in handlers : createCommentReplied(h)
    \/ \E h \in handlers : updateCommentThreadRootCreated(h)
    \/ \E h \in handlers : updateCommentThreadRoot(h)

SpecFetch == InitViews /\ [][NextFetch]_vars

\* The comments of the fetch the review manager passed to update() last: those of the
\* file changes it built of that fetch (getPullRequestData), which update() stored.
LastFetchedIds ==
    UNION {IdsOf(fileChanges[localFileChanges[k]].comments) : k \in DOMAIN localFileChanges}
        \cup
    UNION {IdsOf(fileChanges[obsoleteFileChanges[k]].comments) : k \in DOMAIN obsoleteFileChanges}

\* C34: the list delivered with onDidChangeComments holds every comment of the most
\* recent fetch (no comment is deleted in this specification), so that the review
\* manager, which stores the delivered list, does not go back to an older snapshot.
C34_FiredListCoversLastFetch ==
    fired.fired => LastFetchedIds \subseteq IdsOf(fired.comments)

\* ------------------------------------- the passes of update()

\* The views after the first loop of the update() this step is, and after its second,
\* the loop over the keys of the obsolete map.
AfterWorkspacePass ==
    UpdateFileChanges(Views(threads, workspaceFileChangeCommentThreads,
                            prDocumentCommentThreads, reviewDocumentCommentThreads, inflight),
                      fileChanges', localFileChanges',
                      FileKeys(workspaceFileChangeCommentThreads))

AfterObsoletePass ==
    UpdateFileChanges(AfterWorkspacePass, fileChanges', obsoleteFileChanges',
                      FileKeys(obsoleteFileChangeCommentThreads))

\* C35: the loop of update() over the obsolete file changes leaves the workspace map as
\* the first loop left it, and disposes no thread.
C35_ObsoletePassKeepsWorkspaceMap ==
    [][(lastOp'.name = "update" /\ updateCalls' = updateCalls + 1)
          => /\ AfterObsoletePass.workspace = AfterWorkspacePass.workspace
             /\ AfterObsoletePass.threads = AfterWorkspacePass.threads]_vars

\* C36: no thread object has had dispose() called on it more than once.
C36_DisposedAtMostOnce ==
    \A t \in DOMAIN threads : threads[t].disposed <= 1

\* C37: a validateState that finds metadata for the branch, with the number of the
\* pull request under review, HEAD still there, and either the commit of the branch
\* equal to the last recorded head sha or the branch ahead or behind, returns with the
\* session as it was: number, active pull request, comments, recorded sha, the file
\* changes and the registered provider are what they were.
C37_StillInReviewChangesNothing ==
    [][\A p \in DOMAIN promises :
          (/\ promises[p].status = "running"
           /\ promises[p].pc = "getMetadata"
           /\ promises'[p] # promises[p]
           /\ validateFound' # "no metadata"
           /\ repo.head
           /\ prNumber \in PullRequests
           /\ ~(promises[p].branch.commit # lastCommitSha /\ promises[p].branch.synced))
              => /\ promises'[p].status = "resolved"
                 /\ UNCHANGED <<prNumber, activePullRequest, lastCommitSha, rmComments,
                                providerRegistered, updateMessageShown, loadVars>>]_vars

\* The second validateState of a session has returned early: it has resolved without
\* resetting _validateStatusInProgress, and the session is the one the first loaded.
C37_SecondValidateReturnedEarly ==
    /\ Len(promises) >= 2
    /\ promises[1].status = "resolved"
    /\ promises[2].status = "resolved"
    /\ validateStatusInProgress = 2
    /\ prNumber \in PullRequests
    /\ activePullRequest = prNumber
    /\ rmComments
    /\ providerRegistered

\* C38: the segment an invocation of pr.close ends with has fired onDidUpdatePR once,
\* and no segment of the command fires it more often than that.
C38_CloseFiresOnce ==
    cmdOp.name = "pr.close" => cmdOp.fired <= 1

\* The commands of `cs` that are pr.deleteLocalBranch at `pc`, as pull requests.
DeletingAt(cs, pc) ==
    {c.pullRequest : c \in {d \in cs : d.name = "pr.deleteLocalBranch" /\ d.pc = pc}}

\* C39: a forced deletion is started only by a command that was at the question about
\* the unmerged branch, and a command gets to that question only from its first,
\* unforced deletion, when that failed and the error was the one the question is for.
C39_ForceOnlyAfterQuestion ==
    [][/\ \A pr \in DeletingAt(commands', "deleteLocalPullRequestForce")
                       \ DeletingAt(commands, "deleteLocalPullRequestForce") :
              /\ pr \in DeletingAt(commands, "showErrorMessage")
              /\ cmdOp'.invoked = "deleteLocalPullRequest"
       /\ \A pr \in DeletingAt(commands', "showErrorMessage")
                       \ DeletingAt(commands, "showErrorMessage") :
              /\ pr \in DeletingAt(commands, "deleteLocalPullRequest")
              /\ cmdOp'.errorShown]_vars

\* The user has chosen to force the deletion and the forced deletion is under way.
C39_ForcedDeletionStarted ==
    /\ DeletingAt(commands, "deleteLocalPullRequestForce") # {}
    /\ cmdOp.name = "pr.deleteLocalBranch"
    /\ cmdOp.invoked = "deleteLocalPullRequest"
    /\ ~cmdOp.errorShown

\* ------------------------------------- GitHubManager.validateScopes

\* SCOPES.split(' ')
AppScopes == <<"read:user", "user:email", "repo", "write:discussion">>

GHE_OPTIONAL_SCOPES == {"write:discussion"}

\* GitHubScopesTable, in the order of its keys.
GitHubScopesTable ==
    <<[key |-> "repo",
       scopes |-> {"repo:status", "repo_deployment", "public_repo", "repo:invite"}],
      [key |-> "admin:org", scopes |-> {"write:org", "read:org"}],
      [key |-> "admin:public_key", scopes |-> {"write:public_key", "read:public_key"}],
      [key |-> "admin:org_hook", scopes |-> {}],
      [key |-> "gist", scopes |-> {}],
      [key |-> "notifications", scopes |-> {}],
      [key |-> "user", scopes |-> {"read:user", "user:email", "user:follow"}],
      [key |-> "delete_repo", scopes |-> {}],
      [key |-> "write:discussion", scopes |-> {"read:discussion"}],
      [key |-> "admin:gpg_key", scopes |-> {"write:gpg_key", "read:gpg_key"}]>>

\* The scopes a token may carry, and the hosts: none (<<>>) or one authority.
ScopeNames ==
    {"repo", "user", "read:user", "user:email", "write:discussion", "public_repo", "gist"}

Hosts == {<<>>, <<"github.com">>, <<"GitHub.com">>, <<"ghe.example.com">>}

\* The value of the scopes header: the granted scopes joined by ", ", as GitHub sends
\* them, or by "," alone; the empty string when nothing is granted.
ScopeStrings ==
    {[granted |-> g, separator |-> sep] :
        g \in SUBSET ScopeNames, sep \in {", ", ","}} \
    {sc \in [granted : SUBSET ScopeNames, separator : {","}] : Cardinality(sc.granted) < 2}

\* scopes.split(', '): the elements of a string joined by ", "; a string joined
\* otherwise stays one element, which is no scope name.
Split(scopes) ==
    IF scopes.separator = ", " \/ Cardinality(scopes.granted) < 2
    THEN scopes.granted
    ELSE {"<unsplit>"}

toLowerCase(authority) ==
    IF authority = "GitHub.com" THEN "github.com" ELSE authority

isDotCom(host) ==
    host # <<>> /\ toLowerCase(host[1]) = "github.com"

\* The first key of the table whose list holds the scope, or the scope itself.
getScopeSuperset(scope) ==
    LET keys == SelectSeq(GitHubScopesTable, LAMBDA entry : scope \in entry.scopes)
    IN  IF keys # <<>> THEN keys[1].key ELSE scope

validateScopes(host, scopes) ==
    IF scopes.granted = {} THEN FALSE
    ELSE LET tokenScopes == Split(scopes)
         IN  \A k \in DOMAIN AppScopes :
                 \/ AppScopes[k] \in tokenScopes
                 \/ getScopeSuperset(AppScopes[k]) \in tokenScopes
                 \/ isDotCom(host)
                 \/ AppScopes[k] \in GHE_OPTIONAL_SCOPES

\* A call of validateScopes.
validateScopesCalled(host, scopes) ==
    /\ validated' = [called |-> TRUE, host |-> host, scopes |-> scopes,
                     result |-> validateScopes(host, scopes)]
    /\ UNCHANGED <<provVars, nodeVars, pollVars, loadVars, cmdVars, projected>>
    /\ UNCHANGED <<repo, prNumber, activePullRequest, lastCommitSha, switchingToReviewMode,
                   validateStatusInProgress, promises, switchPc, rmComments,
                   providerRegistered, updateMessageShown, validateFound>>

NextScopes ==
    \E host \in Hosts : \E scopes \in ScopeStrings : validateScopesCalled(host, scopes)

InitScopes ==
    /\ ReviewMode
    /\ InitProvider([ids |-> {}, files |-> {}])

SpecScopes == InitScopes /\ [][NextScopes]_vars

\* The application scope is granted by the token: it is one of its scopes, or one of
\* them is a scope of the table that includes it.
Granted(scope, granted) ==
    \/ scope \in granted
    \/ \E k \in DOMAIN GitHubScopesTable :
           GitHubScopesTable[k].key \in granted /\ scope \in GitHubScopesTable[k].scopes

\* C40: validateScopes has returned true only when the scopes value is not empty and
\* every application scope is granted by the token, or is an optional scope and the
\* host is not github.com.
C40_TrueOnlyWhenScopesGranted ==
    (validated.called /\ validated.result)
        => /\ validated.scopes.granted # {}
           /\ \A k \in DOMAIN AppScopes :
                  \/ Granted(AppScopes[k], validated.scopes.granted)
                  \/ /\ AppScopes[k] \in GHE_OPTIONAL_SCOPES
                     /\ ~isDotCom(validated.host)

====
